---------------------------- MODULE Spec2Model ----------------------------
(***************************************************************************)
(* Game identity resolution and best-version selection of the C64 ROM      *)
(* collector: file names are classified (utils/name_cleaner.py,            *)
(* utils/format_handler.py, core/processor.py), stored as                  *)
(* Games -> Versions -> Parts (db/database.py), ranked                     *)
(* (db/game_repository.py) and exported as a copy script                   *)
(* (core/merger.py, files/path_sanitizer.py).                              *)
(*                                                                         *)
(* Strings are sequences of one-character strings, so that the regular     *)
(* expressions of the source are evaluated character by character.        *)
(***************************************************************************)
EXTENDS Integers, Sequences, FiniteSets, TLC

(***************************************************************************)
(* Characters.  Ascii lists the printable characters in code order         *)
(* (32..126); SQLite's BINARY collation and Python's str comparison order  *)
(* strings by these codes.  GRAVE stands for the character of code 96,    *)
(* which no modelled name contains.                                        *)
(***************************************************************************)
Ascii ==
  << " ", "!", "\"", "#", "$", "%", "&", "'", "(", ")", "*", "+", ",", "-",
     ".", "/", "0", "1", "2", "3", "4", "5", "6", "7", "8", "9", ":", ";",
     "<", "=", ">", "?", "@", "A", "B", "C", "D", "E", "F", "G", "H", "I",
     "J", "K", "L", "M", "N", "O", "P", "Q", "R", "S", "T", "U", "V", "W",
     "X", "Y", "Z", "[", "\\", "]", "^", "_", "GRAVE", "a", "b", "c", "d", "e",
     "f", "g", "h", "i", "j", "k", "l", "m", "n", "o", "p", "q", "r", "s",
     "t", "u", "v", "w", "x", "y", "z", "{", "|", "}", "~" >>

Code(c) == 31 + (CHOOSE i \in 1..Len(Ascii) : Ascii[i] = c)

Chr(n) == Ascii[n - 31]

IsUpper(c) == c \in { Ascii[i] : i \in 34..59 }

IsLower(c) == c \in { Ascii[i] : i \in 66..91 }

IsDigit(c) == c \in { Ascii[i] : i \in 17..26 }

\* \s of the regular expressions; the space is the only whitespace
\* character of the modelled alphabet.
IsSpace(c) == c = " "

\* \w of the regular expressions.
IsWordChar(c) == IsUpper(c) \/ IsLower(c) \/ IsDigit(c) \/ c = "_"

\* str.lower() / re.IGNORECASE on one character.
Lower(c) == IF IsUpper(c) THEN Chr(Code(c) + 32) ELSE c

\* str.upper() on one character.
Upper(c) == IF IsLower(c) THEN Chr(Code(c) - 32) ELSE c

LowerStr(s) == [i \in 1..Len(s) |-> Lower(s[i])]

\* The character at position i, the empty string outside s.
At(s, i) == IF i >= 1 /\ i <= Len(s) THEN s[i] ELSE ""

\* The literal lit occurs in s at position i.
LitAt(s, i, lit) ==
  /\ i >= 1
  /\ i + Len(lit) - 1 <= Len(s)
  /\ \A k \in 1..Len(lit) : s[i + k - 1] = lit[k]

\* The same under re.IGNORECASE (lit is given in lower case).
LitAtI(s, i, lit) ==
  /\ i >= 1
  /\ i + Len(lit) - 1 <= Len(s)
  /\ \A k \in 1..Len(lit) : Lower(s[i + k - 1]) = lit[k]

\* The Python test: lit in s.
Contains(s, lit) == \E i \in 1..Len(s) : LitAt(s, i, lit)

\* First position j >= i whose character is not in set (i itself beyond
\* the end of s): the end of a greedy run [set]* that starts at i.
SkipIn(s, i, set) ==
  IF i > Len(s) THEN i
  ELSE CHOOSE j \in i..(Len(s) + 1) :
         /\ \A k \in i..(j - 1) : s[k] \in set
         /\ At(s, j) \notin set

Whitespace == { " " }

Digits == { Ascii[i] : i \in 17..26 }

Letters == { Ascii[i] : i \in 34..59 } \cup { Ascii[i] : i \in 66..91 }

\* The end of a run \s* that starts at i.
SkipSpaces(s, i) == SkipIn(s, i, Whitespace)

\* The end of a run [0-9]* that starts at i.
SkipDigits(s, i) == SkipIn(s, i, Digits)

\* First position j >= i whose character is in stop (0 if there is none).
FindChar(s, i, stop) ==
  IF \E j \in i..Len(s) : s[j] \in stop
  THEN CHOOSE j \in i..Len(s) : s[j] \in stop /\ \A k \in i..(j - 1) : s[k] \notin stop
  ELSE 0

\* The number of spaces that immediately precede position i.
SpacesBefore(s, i) ==
  CHOOSE n \in 0..(i - 1) :
    /\ \A k \in (i - n)..(i - 1) : IsSpace(s[k])
    /\ ~IsSpace(At(s, i - n - 1))

\* \b between positions e and e+1.
Boundary(s, e) == IsWordChar(At(s, e)) # IsWordChar(At(s, e + 1))

\* re.sub(pattern, repl, s): M(s, i) is the last position of the match of
\* the pattern that starts at i, 0 when the pattern does not match at i.
\* Matches are taken left to right and do not overlap.
SubAll(s, M(_, _), repl) ==
  LET F[i \in 1..(Len(s) + 1)] ==
        IF i > Len(s) THEN << >>
        ELSE LET e == M(s, i)
             IN  IF e > 0 THEN repl \o F[e + 1] ELSE << s[i] >> \o F[i + 1]
  IN  F[1]

\* int(digits)
RECURSIVE ParseInt(_)
ParseInt(d) ==
  IF Len(d) = 0 THEN 0
  ELSE 10 * ParseInt(SubSeq(d, 1, Len(d) - 1)) + (Code(d[Len(d)]) - 48)

\* str(n) for n >= 0, as in the f-strings of the export.
RECURSIVE IntToStr(_)
IntToStr(n) ==
  IF n < 10 THEN << Chr(48 + n) >>
  ELSE IntToStr(n \div 10) \o << Chr(48 + (n % 10)) >>

\* a < b in code-point order.
RECURSIVE StrLess(_, _)
StrLess(a, b) ==
  IF Len(b) = 0 THEN FALSE
  ELSE IF Len(a) = 0 THEN TRUE
  ELSE IF a[1] # b[1] THEN Code(a[1]) < Code(b[1])
  ELSE StrLess(Tail(a), Tail(b))

\* str.strip(chars)
Strip(s, chars) ==
  IF \A i \in 1..Len(s) : s[i] \in chars THEN << >>
  ELSE LET a == CHOOSE i \in 1..Len(s) :
                  s[i] \notin chars /\ \A k \in 1..(i - 1) : s[k] \in chars
           b == CHOOSE i \in 1..Len(s) :
                  s[i] \notin chars /\ \A k \in (i + 1)..Len(s) : s[k] \in chars
       IN  SubSeq(s, a, b)

Max(S) == CHOOSE x \in S : \A y \in S : y <= x

Min(S) == CHOOSE x \in S : \A y \in S : x <= y

(***************************************************************************)
(* os.path                                                                 *)
(***************************************************************************)
\* str.rfind(c) + 1: the last position of c in s, 0 if there is none.
LastIndexOf(s, c) ==
  IF \E i \in 1..Len(s) : s[i] = c THEN Max({ i \in 1..Len(s) : s[i] = c }) ELSE 0

\* os.path.basename
basename(p) == SubSeq(p, LastIndexOf(p, "/") + 1, Len(p))

\* The position of the dot at which os.path.splitext splits p, 0 when p has
\* no extension: the last dot, if it lies in the last component and is
\* preceded there by a character other than a dot.
ExtDot(p) ==
  LET sep == LastIndexOf(p, "/")
      dot == LastIndexOf(p, ".")
  IN  IF dot > sep /\ \E k \in (sep + 1)..(dot - 1) : p[k] # "." THEN dot ELSE 0

\* os.path.splitext(p)[0]
splitext_root(p) == IF ExtDot(p) = 0 THEN p ELSE SubSeq(p, 1, ExtDot(p) - 1)

\* os.path.splitext(p)[1]
splitext_ext(p) == IF ExtDot(p) = 0 THEN << >> ELSE SubSeq(p, ExtDot(p), Len(p))

(***************************************************************************)
(* utils/name_cleaner.py: clean_name                                       *)
(***************************************************************************)
Openers == { "(", "[" }

Closers == { ")", "]" }

PartKeywords == { << "s", "i", "d", "e" >>, << "p", "a", "r", "t" >>, << "d", "i", "s", "k" >> }

\* (Side|Part|Disk)\s*[0-9]+ matches at position q (re.IGNORECASE).
NumberedPartAt(s, q) ==
  /\ \E kw \in PartKeywords : LitAtI(s, q, kw)
  /\ IsDigit(At(s, SkipSpaces(s, q + 4)))

\* The name as it is, without the cut of line 80.
StripPartMarker_keep(s) == s

\* re.sub(r'\s*[\(\[]?(Side|Part|Disk)\s*[0-9]+[\)\]]?.*$', '', name):
\* the name is cut at the start of the leftmost match, which is the first
\* numbered part keyword, extended to the left by an opening bracket that
\* immediately precedes it and by the spaces before that.
StripPartMarker(s) ==
  IF ~\E q \in 1..Len(s) : NumberedPartAt(s, q) THEN s
  ELSE LET q == Min({ x \in 1..Len(s) : NumberedPartAt(s, x) })
           b == IF At(s, q - 1) \in Openers THEN q - 1 ELSE q
       IN  SubSeq(s, 1, b - SpacesBefore(s, b) - 1)

\* The alternatives (USA|Europe|World|Japan|Eur?|Jp|En|PAL|NTSC).
RegionTagTokens ==
  { << "u", "s", "a" >>, << "e", "u", "r", "o", "p", "e" >>, << "w", "o", "r", "l", "d" >>, << "j", "a", "p", "a", "n" >>, << "e", "u" >>, << "e", "u", "r" >>, << "j", "p" >>, << "e", "n" >>,
    << "p", "a", "l" >>, << "n", "t", "s", "c" >> }

\* \s*[\(\[](USA|...|NTSC)[^\)\]]*[\]\)] at i.
RegionTagMatch(s, i) ==
  LET j == SkipSpaces(s, i)
  IN  IF At(s, j) \in Openers /\ \E t \in RegionTagTokens : LitAtI(s, j + 1, t)
      THEN FindChar(s, j + 1, Closers)
      ELSE 0

\* \s*[\(\[]v[\d\.]+[\)\]] at i.
VersionTagMatch(s, i) ==
  LET j == SkipSpaces(s, i)
      k == SkipIn(s, j + 2, Digits \cup { "." })
  IN  IF At(s, j) \in Openers /\ Lower(At(s, j + 1)) = "v" /\ k > j + 2
         /\ At(s, k) \in Closers
      THEN k
      ELSE 0

\* v[\d\.]+\b at i (case-sensitive): the longest run of digits and dots
\* after the v that ends at a word boundary.
BareVersionMatch(s, i) ==
  IF At(s, i) # "v" THEN 0
  ELSE LET k == SkipIn(s, i + 1, Digits \cup { "." })
           ends == { e \in (i + 1)..(k - 1) : Boundary(s, e) }
       IN  IF ends = {} THEN 0 ELSE Max(ends)

\* \s*[\(\[]Version\s+[a-z0-9\.]+[\)\]] at i.
VersionWordMatch(s, i) ==
  LET j == SkipSpaces(s, i)
      k == SkipSpaces(s, j + 8)
      m == SkipIn(s, k, Letters \cup Digits \cup { "." })
  IN  IF At(s, j) \in Openers /\ LitAtI(s, j + 1, << "v", "e", "r", "s", "i", "o", "n" >>) /\ k > j + 8
         /\ m > k /\ At(s, m) \in Closers
      THEN m
      ELSE 0

\* Tape\s*Port\s*Dongle at p: the position after the match, 0 if none.
TapePortDongleEnd(s, p) ==
  IF ~LitAtI(s, p, << "t", "a", "p", "e" >>) THEN 0
  ELSE LET a == SkipSpaces(s, p + 4)
       IN  IF ~LitAtI(s, a, << "p", "o", "r", "t" >>) THEN 0
           ELSE LET b == SkipSpaces(s, a + 4)
                IN  IF LitAtI(s, b, << "d", "o", "n", "g", "l", "e" >>) THEN b + 6 ELSE 0

\* \s*[\(\[](w1|w2|...)[\]\)] at i, for a set of lower-case words.
WordTagMatch(s, i, words) ==
  LET j == SkipSpaces(s, i)
      ok(w) == LitAtI(s, j + 1, w) /\ At(s, j + 1 + Len(w)) \in Closers
  IN  IF At(s, j) \in Openers /\ \E w \in words : ok(w)
      THEN j + 1 + Len(CHOOSE w \in words : ok(w))
      ELSE 0

SuffixWords ==
  { << "b", "u", "d", "g", "e", "t" >>, << "a", "l", "t" >>, << "a", "l", "t", "e", "r", "n", "a", "t", "i", "v", "e" >>, << "u", "n", "l" >>, << "a", "f", "t", "e", "r", "m", "a", "r", "k", "e", "t" >>, << "p", "r", "o", "g", "r", "a", "m" >> }

\* \s*[\(\[](Budget|Alt|Alternative|Unl|Aftermarket|Program|
\*           Tape\s*Port\s*Dongle)[\]\)] at i.
SuffixTagMatch(s, i) ==
  LET j == SkipSpaces(s, i)
      e == TapePortDongleEnd(s, j + 1)
  IN  IF WordTagMatch(s, i, SuffixWords) > 0 THEN WordTagMatch(s, i, SuffixWords)
      ELSE IF At(s, j) \in Openers /\ e > 0 /\ At(s, e) \in Closers THEN e
      ELSE 0

CollectionWords == { << "c", "o", "m", "p", "i", "l", "a", "t", "i", "o", "n" >>, << "c", "o", "l", "l", "e", "c", "t", "i", "o", "n" >> }

\* \s*[\(\[](Compilation|Collection)[\]\)] at i.
CollectionTagMatch(s, i) == WordTagMatch(s, i, CollectionWords)

\* <lit> at i, without the word boundaries.
WholeWordMatch_anywhere(s, i, lit) ==
  IF LitAt(s, i, lit) THEN i + Len(lit) - 1 ELSE 0

\* \b<lit>\b at i (case-sensitive).
WholeWordMatch(s, i, lit) ==
  IF LitAt(s, i, lit) /\ Boundary(s, i - 1) /\ Boundary(s, i + Len(lit) - 1)
  THEN i + Len(lit) - 1
  ELSE 0

\* The six substitutions of lines 97-102, in their order.
ConvertRomanNumerals(s) ==
  LET s2 == SubAll(s,  LAMBDA t, i : WholeWordMatch(t, i, << "I", "I" >>),   << "2" >>)
      s3 == SubAll(s2, LAMBDA t, i : WholeWordMatch(t, i, << "I", "I", "I" >>),  << "3" >>)
      s4 == SubAll(s3, LAMBDA t, i : WholeWordMatch(t, i, << "I", "V" >>),   << "4" >>)
      s6 == SubAll(s4, LAMBDA t, i : WholeWordMatch(t, i, << "V", "I" >>),   << "6" >>)
      s7 == SubAll(s6, LAMBDA t, i : WholeWordMatch(t, i, << "V", "I", "I" >>),  << "7" >>)
  IN  SubAll(s7, LAMBDA t, i : WholeWordMatch(t, i, << "V", "I", "I", "I" >>), << "8" >>)

\* \s*<open>[^<close>]*<close> at i.
GroupMatch(s, i, open, close) ==
  LET j == SkipSpaces(s, i)
  IN  IF At(s, j) = open THEN FindChar(s, j + 1, { close }) ELSE 0

\* \s+ at i.
SpacesMatch(s, i) == IF IsSpace(At(s, i)) THEN SkipSpaces(s, i) - 1 ELSE 0

clean_name(name) ==
  LET n1 == splitext_root(name)
      n2 == StripPartMarker(n1)
      n3 == SubAll(n2, RegionTagMatch, << >>)
      n4 == SubAll(n3, VersionTagMatch, << >>)
      n5 == SubAll(n4, BareVersionMatch, << >>)
      n6 == SubAll(n5, VersionWordMatch, << >>)
      n7 == SubAll(n6, SuffixTagMatch, << >>)
      n8 == SubAll(n7, CollectionTagMatch, << >>)
      n9 == ConvertRomanNumerals(n8)
      n10 == SubAll(n9, LAMBDA t, i : GroupMatch(t, i, "(", ")"), << >>)
      n11 == SubAll(n10, LAMBDA t, i : GroupMatch(t, i, "[", "]"), << >>)
      n12 == Strip(n11, Whitespace)
  IN  SubAll(n12, SpacesMatch, << " " >>)

(***************************************************************************)
(* utils/name_cleaner.py: extract_region, get_region_priority              *)
(***************************************************************************)
\* lit occurs somewhere in s (re.IGNORECASE; lit in lower case).
ContainsI(s, lit) == \E i \in 1..Len(s) : LitAtI(s, i, lit)

\* The alternatives (?:USA|Europe|World|Japan|Eur|Jp|En|PAL|NTSC).
RegionTokens ==
  { << "u", "s", "a" >>, << "e", "u", "r", "o", "p", "e" >>, << "w", "o", "r", "l", "d" >>, << "j", "a", "p", "a", "n" >>, << "e", "u", "r" >>, << "j", "p" >>, << "e", "n" >>, << "p", "a", "l" >>,
    << "n", "t", "s", "c" >> }

\* \(([^)]*(?:USA|...|NTSC)[^)]*)\) matches at the parenthesis at p.
RegionGroupAt(s, p) ==
  /\ At(s, p) = "("
  /\ FindChar(s, p + 1, { ")" }) > 0
  /\ \E t \in RegionTokens :
       ContainsI(SubSeq(s, p + 1, FindChar(s, p + 1, { ")" }) - 1), t)

\* \b<lit>\b at i under re.IGNORECASE.
WholeWordMatchI(s, i, lit) ==
  IF LitAtI(s, i, lit) /\ Boundary(s, i - 1) /\ Boundary(s, i + Len(lit) - 1)
  THEN i + Len(lit) - 1
  ELSE 0

extract_region(name) ==
  IF \E q \in 1..Len(name) : NumberedPartAt(name, q) THEN << >>
  ELSE IF ~\E p \in 1..Len(name) : RegionGroupAt(name, p) THEN << >>
  ELSE LET p  == Min({ x \in 1..Len(name) : RegionGroupAt(name, x) })
           r0 == Strip(SubSeq(name, p + 1, FindChar(name, p + 1, { ")" }) - 1),
                       Whitespace)
           r1 == SubAll(r0, LAMBDA t, i : WholeWordMatchI(t, i, << "e", "u", "r" >>), << "E", "u", "r", "o", "p", "e" >>)
           r2 == SubAll(r1, LAMBDA t, i : WholeWordMatchI(t, i, << "j", "p" >>), << "J", "a", "p", "a", "n" >>)
       IN  SubAll(r2, LAMBDA t, i : WholeWordMatchI(t, i, << "e", "n" >>), << "E", "n", "g", "l", "i", "s", "h" >>)

\* The table visited by ascending priority.
REGION_PRIORITIES_ascending ==
  << << << >>, 0 >>, << << "N", "T", "S", "C" >>, 1 >>, << << "J", "a", "p", "a", "n" >>, 2 >>, << << "U", "S", "A" >>, 3 >>, << << "W", "o", "r", "l", "d" >>, 4 >>,
     << << "P", "A", "L" >>, 5 >>, << << "E", "u", "r", "o", "p", "e" >>, 6 >> >>

\* REGION_PRIORITIES, listed by descending priority as the partial-match
\* loop visits it.
REGION_PRIORITIES ==
  << << << "E", "u", "r", "o", "p", "e" >>, 6 >>, << << "P", "A", "L" >>, 5 >>, << << "W", "o", "r", "l", "d" >>, 4 >>, << << "U", "S", "A" >>, 3 >>,
     << << "J", "a", "p", "a", "n" >>, 2 >>, << << "N", "T", "S", "C" >>, 1 >>, << << >>, 0 >> >>

get_region_priority(region) ==
  IF \E i \in 1..Len(REGION_PRIORITIES) : REGION_PRIORITIES[i][1] = region
  THEN REGION_PRIORITIES[CHOOSE i \in 1..Len(REGION_PRIORITIES) :
                           REGION_PRIORITIES[i][1] = region][2]
  ELSE LET hits == { i \in 1..Len(REGION_PRIORITIES) :
                       /\ REGION_PRIORITIES[i][1] # << >>
                       /\ Contains(region, REGION_PRIORITIES[i][1]) }
       IN  IF hits = {} THEN 0 ELSE REGION_PRIORITIES[Min(hits)][2]

(***************************************************************************)
(* utils/format_handler.py                                                 *)
(***************************************************************************)
\* filename.split('.')[-1], without lower().
LastDotField_as_written(filename) ==
  SubSeq(filename, LastIndexOf(filename, ".") + 1, Len(filename))

\* filename.lower().split('.')[-1]
LastDotField(filename) ==
  LowerStr(SubSeq(filename, LastIndexOf(filename, ".") + 1, Len(filename)))

get_format_priority(filename) ==
  LET ext == LastDotField(filename)
  IN  CASE ext = << "c", "r", "t" >> -> 4
        [] ext \in { << "d", "6", "4" >>, << "g", "6", "4" >>, << "n", "i", "b" >> } -> 3
        [] ext = << "p", "r", "g" >> -> 2
        [] ext \in { << "t", "a", "p" >>, << "t", "6", "4" >> } -> 1
        [] OTHER -> 0

\* The deny list without its entry (v2).
DenyList_without_v2 ==
  { << "T", "a", "p", "e", " ", "P", "o", "r", "t", " ", "D", "o", "n", "g", "l", "e" >>, << "S", "a", "v", "e", "d", "i", "s", "k" >>, << "S", "p", "e", "c", "i", "a", "l", " ", "E", "d", "i", "t", "i", "o", "n" >>, << "R", "e", "-", "r", "e", "l", "e", "a", "s", "e" >> }

\* The phrases that switch multi-part detection off.
DenyList ==
  { << "T", "a", "p", "e", " ", "P", "o", "r", "t", " ", "D", "o", "n", "g", "l", "e" >>, << "S", "a", "v", "e", "d", "i", "s", "k" >>, << "S", "p", "e", "c", "i", "a", "l", " ", "E", "d", "i", "t", "i", "o", "n" >>, << "(", "v", "2", ")" >>,
    << "R", "e", "-", "r", "e", "l", "e", "a", "s", "e" >> }

DenyListed(full_path) == \E p \in DenyList : Contains(full_path, p)

\* Side\s*[A-B] at q (re.IGNORECASE).
SideLetterAt(s, q) ==
  /\ LitAtI(s, q, << "s", "i", "d", "e" >>)
  /\ Lower(At(s, SkipSpaces(s, q + 4))) \in { "a", "b" }

\* Part\s*[0-9]+\s*- at q.
PartDashAt(s, q) ==
  /\ LitAtI(s, q, << "p", "a", "r", "t" >>)
  /\ IsDigit(At(s, SkipSpaces(s, q + 4)))
  /\ At(s, SkipSpaces(s, SkipDigits(s, SkipSpaces(s, q + 4)))) = "-"

\* The position after Levels? at q.
AfterLevel(s, q) == IF Lower(At(s, q + 5)) = "s" THEN q + 6 ELSE q + 5

\* Levels?\s*[0-9][\s\-]*(?:and|&|\+)[\s\-]*[0-9] at q.
LevelPairAt(s, q) ==
  /\ LitAtI(s, q, << "l", "e", "v", "e", "l" >>)
  /\ LET d == SkipSpaces(s, AfterLevel(s, q))
         r == SkipIn(s, d + 1, { " ", "-" })
         joined(n) == IsDigit(At(s, SkipIn(s, r + n, { " ", "-" })))
     IN  /\ IsDigit(At(s, d))
         /\ \/ LitAtI(s, r, << "a", "n", "d" >>) /\ joined(3)
            \/ At(s, r) \in { "&", "+" } /\ joined(1)

\* <keyword>\s*[0-9]+/ at q: a numbered directory name.
NumberedDirAt(s, q, keyword) ==
  /\ LitAtI(s, q, keyword)
  /\ IsDigit(At(s, SkipSpaces(s, q + 4)))
  /\ At(s, SkipDigits(s, SkipSpaces(s, q + 4))) = "/"

\* Side\s*[A-B]/ at q.
SideLetterDirAt(s, q) ==
  SideLetterAt(s, q) /\ At(s, SkipSpaces(s, q + 4) + 1) = "/"

is_multi_part(path, name) ==
  LET full_path == path \o name
  IN  /\ ~DenyListed(full_path)
      /\ \E q \in 1..Len(full_path) :
           \/ NumberedPartAt(full_path, q)
           \/ SideLetterAt(full_path, q)
           \/ PartDashAt(full_path, q)
           \/ LevelPairAt(full_path, q)
           \/ NumberedDirAt(full_path, q, << "d", "i", "s", "k" >>)
           \/ SideLetterDirAt(full_path, q)
           \/ NumberedDirAt(full_path, q, << "p", "a", "r", "t" >>)

\* Levels?\s*([0-9]+) at q.
LevelNumberAt(s, q) ==
  LitAtI(s, q, << "l", "e", "v", "e", "l" >>) /\ IsDigit(At(s, SkipSpaces(s, AfterLevel(s, q))))

\* The first digit at d, as a number.
NumberAt_one_digit(s, d) == ParseInt(SubSeq(s, d, d))

\* The digits that start at d, as a number.
NumberAt(s, d) == ParseInt(SubSeq(s, d, SkipDigits(s, d) - 1))

get_multi_part_info(path, name) ==
  LET full_path == path \o name
      first(P(_, _)) == Min({ q \in 1..Len(full_path) : P(full_path, q) })
      found(P(_, _)) == \E q \in 1..Len(full_path) : P(full_path, q)
  IN  IF DenyListed(full_path) THEN 0
      ELSE IF found(NumberedPartAt)
        THEN NumberAt(full_path, SkipSpaces(full_path, first(NumberedPartAt) + 4))
      ELSE IF found(SideLetterAt)
        THEN Code(Upper(At(full_path, SkipSpaces(full_path, first(SideLetterAt) + 4))))
               - Code("A") + 1
      ELSE IF found(LevelNumberAt)
        THEN (NumberAt(full_path,
                       SkipSpaces(full_path,
                                  AfterLevel(full_path, first(LevelNumberAt)))) + 1)
               \div 2
      ELSE 0

(***************************************************************************)
(* core/processor.py                                                       *)
(***************************************************************************)
\* The value process_file returns for a name without identity.
None == [none |-> TRUE]

\* process_file without the return of lines 26-27.
process_file_no_drop(file_path, collection_name) ==
  LET original_name == basename(file_path)
      ext           == splitext_ext(original_name)
      region        == extract_region(original_name)
      is_multi      == is_multi_part(file_path, original_name)
  IN  [ source_path     |-> file_path,
        original_name   |-> original_name,
        clean_name      |-> clean_name(original_name),
        format          |-> LowerStr(SubSeq(ext, 2, Len(ext))),
        collection      |-> collection_name,
        format_priority |-> get_format_priority(original_name),
        region          |-> region,
        region_priority |-> get_region_priority(region),
        is_multi_part   |-> IF is_multi THEN 1 ELSE 0,
        part_number     |-> IF is_multi
                            THEN get_multi_part_info(file_path, original_name)
                            ELSE 0 ]

process_file(file_path, collection_name) ==
  LET original_name == basename(file_path)
      ext           == splitext_ext(original_name)
      format_ext    == LowerStr(SubSeq(ext, 2, Len(ext)))
      clean_title   == clean_name(original_name)
      region        == extract_region(original_name)
      is_multi      == is_multi_part(file_path, original_name)
  IN  IF clean_title = << >> THEN None
      ELSE [ source_path     |-> file_path,
             original_name   |-> original_name,
             clean_name      |-> clean_title,
             format          |-> format_ext,
             collection      |-> collection_name,
             format_priority |-> get_format_priority(original_name),
             region          |-> region,
             region_priority |-> get_region_priority(region),
             is_multi_part   |-> IF is_multi THEN 1 ELSE 0,
             part_number     |-> IF is_multi
                                 THEN get_multi_part_info(file_path, original_name)
                                 ELSE 0 ]

(***************************************************************************)
(* files/path_sanitizer.py, files/operations.py, os.path.join              *)
(***************************************************************************)
SanitizerRegions == { << "U", "S", "A" >>, << "E", "u", "r", "o", "p", "e" >>, << "J", "a", "p", "a", "n" >>, << "W", "o", "r", "l", "d" >> }

\* \s*\((USA|Europe|Japan|World)\) at i (case-sensitive).
SanitizerRegionMatch(s, i) ==
  LET j == SkipSpaces(s, i)
      ok(r) == LitAt(s, j + 1, r) /\ At(s, j + 1 + Len(r)) = ")"
  IN  IF At(s, j) = "(" /\ \E r \in SanitizerRegions : ok(r)
      THEN j + 1 + Len(CHOOSE r \in SanitizerRegions : ok(r))
      ELSE 0

\* The characters the sanitizer replaces by an underscore.
ProblemChars == { "<", ">", ":", "\"", "|", "?", "*", "\\", "/", " " }

\* _{2,} at i.
UnderscoresMatch(s, i) ==
  IF At(s, i) = "_" /\ At(s, i + 1) = "_" THEN SkipIn(s, i, { "_" }) - 1 ELSE 0

\* re.sub(r'[<>:"|?*\\/\s]', '_', name)
Underscored(s) == [i \in 1..Len(s) |-> IF s[i] \in ProblemChars THEN "_" ELSE s[i]]

\* if not name or all(c == '.' for c in name): name = "unnamed"
OrUnnamed(name) ==
  IF name = << >> \/ \A i \in 1..Len(name) : name[i] = "." THEN << "u", "n", "n", "a", "m", "e", "d" >> ELSE name

sanitize_directory_name(name) ==
  LET found  == \E i \in 1..Len(name) : SanitizerRegionMatch(name, i) > 0
      start  == Min({ i \in 1..Len(name) : SanitizerRegionMatch(name, i) > 0 })
      group0 == SubSeq(name, start, SanitizerRegionMatch(name, start))
      \* group(1): the region between the parentheses
      region == SubSeq(name, SkipSpaces(name, start) + 1,
                       SanitizerRegionMatch(name, start) - 1)
      \* name.replace(region_match.group(0), '')
      n1 == IF found
            THEN SubAll(name,
                        LAMBDA t, i : IF LitAt(t, i, group0)
                                      THEN i + Len(group0) - 1 ELSE 0,
                        << >>)
            ELSE name
      n2 == SubAll(n1, LAMBDA t, i : GroupMatch(t, i, "(", ")"), << >>)
      n3 == SubAll(n2, SpacesMatch, << " " >>)
      n4 == Underscored(n3)
      n5 == SubAll(n4, UnderscoresMatch, << "_" >>)
      n6 == Strip(n5, { ".", " ", "_" })
  IN  OrUnnamed(n6 \o (IF found THEN << "_" >> \o region ELSE << >>))

\* str.replace(old, new) for single characters.
ReplaceChar(s, old, new) == [i \in 1..Len(s) |-> IF s[i] = old THEN new ELSE s[i]]

\* normalize_path_for_script(path), called without ensure_prefix.
normalize_path_for_script(path) == ReplaceChar(path, "\\", "/")

\* os.path.join(a, b) of posixpath.
join(a, b) ==
  IF At(b, 1) = "/" THEN b
  ELSE IF a = << >> \/ At(a, Len(a)) = "/" THEN a \o b
  ELSE a \o << "/" >> \o b

(***************************************************************************)
(* db/database.py: the three tables.  A table is the sequence of its rows  *)
(* in rowid order (INTEGER PRIMARY KEY: the id of a row is its position).  *)
(* region_cols tells whether game_versions has the columns region and      *)
(* region_priority: create_schema (lines 58-65) creates the table without  *)
(* them, while a database file laid out as in tests/unit/test_merger.py    *)
(* (lines 41-50) has them, with defaults '' and 0, and create_schema       *)
(* leaves such a table in place (CREATE TABLE IF NOT EXISTS).              *)
(***************************************************************************)
EmptyDb(cols) ==
  [ games |-> << >>, game_versions |-> << >>, game_parts |-> << >>,
    region_cols |-> cols ]

\* SELECT id FROM games WHERE clean_name = ? (0: no row)
GameId(db, clean) ==
  IF \E i \in 1..Len(db.games) : db.games[i].clean_name = clean
  THEN Min({ i \in 1..Len(db.games) : db.games[i].clean_name = clean })
  ELSE 0

\* Variant of the lookup below without the condition on format.
VersionId_any_format(db, game_id, collection, format) ==
  LET hits == { i \in 1..Len(db.game_versions) :
                  /\ db.game_versions[i].game_id = game_id
                  /\ db.game_versions[i].collection = collection }
  IN  IF hits = {} THEN 0 ELSE Min(hits)

\* Variant of the lookup below that never finds a row.
VersionId_no_row(db, game_id, collection, format) == 0

\* SELECT id FROM game_versions WHERE game_id = ? AND collection = ? AND
\* format = ?, fetchone() (0: no row)
VersionId(db, game_id, collection, format) ==
  LET hits == { i \in 1..Len(db.game_versions) :
                  /\ db.game_versions[i].game_id = game_id
                  /\ db.game_versions[i].collection = collection
                  /\ db.game_versions[i].format = format }
  IN  IF hits = {} THEN 0 ELSE Min(hits)

\* The row INSERT INTO game_versions creates; region and region_priority
\* take the column defaults where the table has these columns.
VersionRow(db, game_id, game_data) ==
  IF db.region_cols
  THEN [ game_id |-> game_id, collection |-> game_data.collection,
         format |-> game_data.format,
         format_priority |-> game_data.format_priority,
         region |-> << >>, region_priority |-> 0 ]
  ELSE [ game_id |-> game_id, collection |-> game_data.collection,
         format |-> game_data.format,
         format_priority |-> game_data.format_priority ]

\* Variant of the insertion below that replaces the rows of the three tables
\* by the rows of the new record.
insert_game_replace(db, game_data) ==
  [db EXCEPT
     !.games = << [clean_name |-> game_data.clean_name] >>,
     !.game_versions = << VersionRow(db, 1, game_data) >>,
     !.game_parts = << [ version_id    |-> 1,
                         part_number   |-> game_data.part_number,
                         source_path   |-> game_data.source_path,
                         original_name |-> game_data.original_name ] >>]

\* DatabaseManager.insert_game: the database after the call.
insert_game(db, game_data) ==
  LET \* INSERT OR IGNORE INTO games: ignored when the unique index on
      \* clean_name already holds the name
      games1 == IF GameId(db, game_data.clean_name) = 0
                THEN Append(db.games, [clean_name |-> game_data.clean_name])
                ELSE db.games
      db1 == [db EXCEPT !.games = games1]
      game_id == GameId(db1, game_data.clean_name)
      found == VersionId(db1, game_id, game_data.collection, game_data.format)
      versions1 == IF found # 0 THEN db1.game_versions
                   ELSE Append(db1.game_versions, VersionRow(db1, game_id, game_data))
      version_id == IF found # 0 THEN found ELSE Len(versions1)
  IN  [db1 EXCEPT
         !.game_versions = versions1,
         !.game_parts = Append(db1.game_parts,
                               [ version_id    |-> version_id,
                                 part_number   |-> game_data.part_number,
                                 source_path   |-> game_data.source_path,
                                 original_name |-> game_data.original_name ])]

\* The tuple insert_game returns: (game_id, version_id, part_id).
insert_game_result(db, game_data) ==
  LET db2 == insert_game(db, game_data)
  IN  << GameId(db2, game_data.clean_name),
         db2.game_parts[Len(db2.game_parts)].version_id,
         Len(db2.game_parts) >>

(***************************************************************************)
(* db/game_repository.py: get_best_versions                                *)
(***************************************************************************)
\* The exception sqlite3 raises for the columns v.region and
\* v.region_priority when game_versions does not have them.
OperationalError == "OperationalError: no such column: v.region"

\* ORDER BY v.format_priority DESC, v.region_priority DESC, v.collection ASC
\* within PARTITION BY g.id: version a is numbered before version b.  The
\* query leaves the order of rows that are equal in all three keys open;
\* sqlite numbers them in rowid order.
RankedBefore(db, a, b) ==
  LET va == db.game_versions[a]
      vb == db.game_versions[b]
  IN  \/ va.format_priority > vb.format_priority
      \/ /\ va.format_priority = vb.format_priority
         /\ va.region_priority > vb.region_priority
      \/ /\ va.format_priority = vb.format_priority
         /\ va.region_priority = vb.region_priority
         /\ StrLess(va.collection, vb.collection)
      \/ /\ va.format_priority = vb.format_priority
         /\ va.region_priority = vb.region_priority
         /\ va.collection = vb.collection
         /\ a < b

VersionsOf(db, game_id) ==
  { i \in 1..Len(db.game_versions) : db.game_versions[i].game_id = game_id }

PartsOf(db, version_id) ==
  { i \in 1..Len(db.game_parts) : db.game_parts[i].version_id = version_id }

\* The version with rn = 1 in the partition of game_id (0: the game has no
\* version and drops out of the JOIN).
BestVersion(db, game_id) ==
  IF VersionsOf(db, game_id) = {} THEN 0
  ELSE CHOOSE a \in VersionsOf(db, game_id) :
         \A b \in VersionsOf(db, game_id) \ { a } : RankedBefore(db, a, b)

\* The ids of a set of rows as the sequence that the strict total order
\* Before(_, _) puts them in.
SortBy(ids, Before(_, _)) ==
  [i \in 1..Cardinality(ids) |->
     CHOOSE a \in ids : Cardinality({ b \in ids : Before(b, a) }) = i - 1]

\* Variant of the order below without the key part_number.
PartBefore_rowid(db, a, b) == a < b

\* ORDER BY ..., p.part_number: part a comes before part b; rows of equal
\* part_number come in rowid order.
PartBefore(db, a, b) ==
  \/ db.game_parts[a].part_number < db.game_parts[b].part_number
  \/ /\ db.game_parts[a].part_number = db.game_parts[b].part_number
     /\ a < b

\* The rows of one selected version.
VersionRows(db, game_id) ==
  LET v     == BestVersion(db, game_id)
      parts == SortBy(PartsOf(db, v), LAMBDA a, b : PartBefore(db, a, b))
  IN  [i \in 1..Len(parts) |->
         [ clean_name  |-> db.games[game_id].clean_name,
           format      |-> db.game_versions[v].format,
           source_path |-> db.game_parts[parts[i]].source_path,
           part_number |-> db.game_parts[parts[i]].part_number,
           \* COUNT(*) OVER (PARTITION BY rv.version_id)
           total_parts |-> Len(parts) ]]

RECURSIVE Flatten(_)
Flatten(seqs) == IF seqs = << >> THEN << >> ELSE Head(seqs) \o Flatten(Tail(seqs))

\* GameRepository.get_best_versions: the exception execute() raises, or the
\* rows fetchall() returns.
get_best_versions(db) ==
  IF ~db.region_cols THEN [exception |-> OperationalError, rows |-> << >>]
  ELSE LET order == SortBy({ g \in 1..Len(db.games) : BestVersion(db, g) # 0 },
                           LAMBDA a, b : StrLess(db.games[a].clean_name,
                                                 db.games[b].clean_name))
       IN  [ exception |-> "",
             rows |-> Flatten([i \in 1..Len(order) |-> VersionRows(db, order[i])]) ]

(***************************************************************************)
(* core/merger.py: generate_merge_script.  A script file is the sequence   *)
(* of the lines and commands written to it.                                *)
(***************************************************************************)
\* config.py: TARGET_DIR, relative to the project root
TARGET_DIR == << "t", "a", "r", "g", "e", "t" >>

\* current_game = None
NoGame == << "None" >>

\* Variant of the update below that starts a new list for every entry.
AddPlaylistEntry_new_list(m3u_files, game_name, entry) ==
  Append(m3u_files, [game_name |-> game_name, disk_files |-> << entry >>])

\* m3u_files[clean_name].append((rel_path, label)) on the dict m3u_files,
\* kept as the sequence of its items in insertion order.
AddPlaylistEntry(m3u_files, game_name, entry) ==
  IF \E i \in 1..Len(m3u_files) : m3u_files[i].game_name = game_name
  THEN LET i == CHOOSE k \in 1..Len(m3u_files) : m3u_files[k].game_name = game_name
       IN  [m3u_files EXCEPT ![i].disk_files = Append(@, entry)]
  ELSE Append(m3u_files, [game_name |-> game_name, disk_files |-> << entry >>])

\* Variant of the test below that holds for every row.
MultiPart_always(row) == row.total_parts > 0

\* if total_parts > 1: the row belongs to a multi-part game (line 122)
MultiPart(row) == row.total_parts > 1

\* target_file (lines 136 and 144)
TargetFile(row, sanitized_name) ==
  IF MultiPart(row)
  THEN join(sanitized_name,
            sanitized_name \o << " ", "(", "D", "i", "s", "k", " " >> \o IntToStr(row.part_number) \o << ")", "." >>
              \o row.format)
  ELSE sanitized_name \o << "." >> \o row.format

\* Variant of the announcement below that does not look at current_game.
Announce_every_row(acc, row, target_dir, sanitized_name) ==
  IF MultiPart(row)
  THEN << [cmd |-> "#", text |-> << "M", "u", "l", "t", "i", "-", "p", "a", "r", "t", " ", "g", "a", "m", "e", ":", " " >> \o row.clean_name],
          [cmd |-> "mkdir",
           directory |-> normalize_path_for_script(join(target_dir, sanitized_name))] >>
  ELSE << >>

\* The comment and the mkdir written when a multi-part game begins
\* (lines 126-132).
Announce(acc, row, target_dir, sanitized_name) ==
  IF MultiPart(row) /\ acc.current_game # row.clean_name
  THEN << [cmd |-> "#", text |-> << "M", "u", "l", "t", "i", "-", "p", "a", "r", "t", " ", "g", "a", "m", "e", ":", " " >> \o row.clean_name],
          [cmd |-> "mkdir",
           directory |-> normalize_path_for_script(join(target_dir, sanitized_name))] >>
  ELSE << >>

\* The rest of the iteration, once sanitized_name and target_file are set.
MergeFile(acc, row, target_dir, sanitized_name, target_file) ==
  [ file_count   |-> acc.file_count + 1,
    current_game |-> IF MultiPart(row) THEN row.clean_name ELSE acc.current_game,
    m3u_files    |-> IF MultiPart(row)
                     THEN AddPlaylistEntry(
                            acc.m3u_files, row.clean_name,
                            [ rel_path |-> ReplaceChar(target_file, "\\", "/"),
                              label    |-> << "D", "i", "s", "k", " " >> \o IntToStr(row.part_number) ])
                     ELSE acc.m3u_files,
    sh_file      |-> acc.sh_file \o Announce(acc, row, target_dir, sanitized_name) \o
                     << [cmd |-> "cp",
                         source_path |-> normalize_path_for_script(row.source_path),
                         target_path |-> normalize_path_for_script(
                                           join(target_dir, target_file))] >> ]

MergeNamed(acc, row, target_dir, sanitized_name) ==
  MergeFile(acc, row, target_dir, sanitized_name, TargetFile(row, sanitized_name))

\* One iteration of the loop over best_versions (lines 116-151).
MergeRow(acc, row, target_dir) ==
  MergeNamed(acc, row, target_dir, sanitize_directory_name(row.clean_name))

RECURSIVE MergeRows(_, _, _)
MergeRows(acc, rows, target_dir) ==
  IF rows = << >> THEN acc
  ELSE MergeRows(MergeRow(acc, Head(rows), target_dir), Tail(rows), target_dir)

\* The playlists written after the loop (lines 154-157).
Playlists(m3u_files, target_dir) ==
  [i \in 1..Len(m3u_files) |->
     [ cmd        |-> "cat",
       m3u_path   |-> normalize_path_for_script(
                        join(target_dir,
                             sanitize_directory_name(m3u_files[i].game_name)
                               \o << ".", "m", "3", "u" >>)),
       disk_files |-> m3u_files[i].disk_files ]]

\* The batch script receives the commands of the shell script with the
\* separators of every path turned into backslashes.
Backslashes(path) == ReplaceChar(path, "/", "\\")

BatchLine(line) ==
  CASE line.cmd = "#!/bin/bash" -> [cmd |-> "@echo off"]
    [] line.cmd = "#" -> [cmd |-> "REM", text |-> line.text]
    [] line.cmd = "mkdir" ->
         [cmd |-> "if not exist", directory |-> Backslashes(line.directory)]
    [] line.cmd = "cp" ->
         [cmd |-> "copy", source_path |-> Backslashes(line.source_path),
          target_path |-> Backslashes(line.target_path)]
    [] line.cmd = "cat" ->
         [cmd |-> "echo", m3u_path |-> Backslashes(line.m3u_path),
          disk_files |-> [k \in 1..Len(line.disk_files) |->
                            [rel_path |-> Backslashes(line.disk_files[k].rel_path),
                             label    |-> line.disk_files[k].label]]]

\* The header and the mkdir of the target directory (lines 102-109).
Opening(target_dir) ==
  << [cmd |-> "#!/bin/bash"],
     [cmd |-> "mkdir", directory |-> normalize_path_for_script(target_dir)] >>

\* What a call leaves behind: the exception it raised (if any), the rows it
\* fetched, the two scripts and the count it returns.
Outcome(exception, rows, sh, count) ==
  [ exception     |-> exception,
    best_versions |-> rows,
    sh_file       |-> sh,
    cmd_file      |-> [i \in 1..Len(sh) |-> BatchLine(sh[i])],
    file_count    |-> count ]

\* The playlists follow the loop (lines 153-157).
Finish(acc, rows, target_dir) ==
  Outcome("", rows, acc.sh_file \o Playlists(acc.m3u_files, target_dir),
          acc.file_count)

\* Lines 112-157.  When get_best_versions raises, the files hold what was
\* written before and the call returns nothing.
Export(best, target_dir) ==
  IF best.exception # ""
  THEN Outcome(best.exception, << >>, Opening(target_dir), 0)
  ELSE Finish(MergeRows([ file_count |-> 0, current_game |-> NoGame,
                          m3u_files |-> << >>, sh_file |-> Opening(target_dir) ],
                        best.rows, target_dir),
              best.rows, target_dir)

\* generate_merge_script(db_path, output_path, target_dir)
generate_merge_script(db, target_dir) == Export(get_best_versions(db), target_dir)

(***************************************************************************)
(* files/operations.py: should_skip_file, with the tables of config.py     *)
(***************************************************************************)
SKIP_PATTERNS ==
  { << "B", "I", "O", "S" >>, << "A", "c", "t", "i", "o", "n", " ", "R", "e", "p", "l", "a", "y" >>, << "E", "P", "R", "O", "M", "-", "S", "y", "s", "t", "e", "m" >>, << "Q", "u", "i", "c", "k", "l", "o", "a", "d" >>, << "6", "4", " ", "D", "o", "c", "t", "o", "r" >>,
    << "6", "4", "M", "O", "N" >>, << "C", "o", "n", "s", "t", "r", "u", "c", "t", "i", "o", "n", " ", "K", "i", "t" >>, << "M", "o", "n", "i", "t", "o", "r" >>, << "C", "o", "m", "p", "i", "l", "e", "r" >>, << "E", "d", "i", "t", "o", "r" >>,
    << "U", "t", "i", "l", "i", "t", "y" >>, << "D", "e", "m", "o", " ", "D", "i", "s", "k" >>, << "P", "r", "o", "g", "r", "a", "m" >>, << "S", "y", "s", "t", "e", "m" >>, << "C", "a", "r", "t", "r", "i", "d", "g", "e", " ", "P", "l", "u", "s" >> }

\* Variant of the table below that also lists txt.
FORMAT_PRIORITIES_keys_with_txt ==
  { << "c", "r", "t" >>, << "d", "6", "4" >>, << "g", "6", "4" >>, << "n", "i", "b" >>, << "t", "a", "p" >>, << "t", "6", "4" >>, << "p", "r", "g" >>, << "t", "x", "t" >> }

\* FORMAT_PRIORITIES.keys()
FORMAT_PRIORITIES_keys ==
  { << "c", "r", "t" >>, << "d", "6", "4" >>, << "g", "6", "4" >>, << "n", "i", "b" >>, << "t", "a", "p" >>, << "t", "6", "4" >>, << "p", "r", "g" >> }

should_skip_file(path, filename) ==
  LET ext == splitext_ext(filename)
  IN  \/ Contains(path, << "/", "O", "r", "i", "g", "i", "n", "a", "l", "s", "/" >>)
      \/ Contains(path, << "\\", "O", "r", "i", "g", "i", "n", "a", "l", "s", "\\" >>)
      \/ \E pattern \in SKIP_PATTERNS :
           Contains(path, pattern) \/ Contains(filename, pattern)
      \/ LowerStr(SubSeq(ext, 2, Len(ext))) \notin FORMAT_PRIORITIES_keys

(***************************************************************************)
(* The source tree: one directory per collection below the ROM directory.  *)
(***************************************************************************)
\* How many files one import visits.
MaxFiles == 3

InCollection(collection, names) ==
  { [ collection |-> collection,
      file_path  |-> << "r", "o", "m", "s", "/" >> \o collection \o << "/" >> \o n ] : n \in names }

SourceTree ==
  InCollection(<< "A" >>, { << "G", ".", "c", "r", "t" >>, << "G", ".", "d", "6", "4" >>, << "G", ".", "g", "6", "4" >>, << "G", " ", "(", "A", "l", "t", ")", ".", "d", "6", "4" >>,
                       << "G", " ", "(", "D", "i", "s", "k", " ", "1", ")", ".", "d", "6", "4" >>, << "G", " ", "(", "D", "i", "s", "k", " ", "2", ")", ".", "d", "6", "4" >>, << "H", " ", "I", "I", ".", "t", "a", "p" >>,
                       << "(", "E", "u", "r", "o", "p", "e", ")", ".", "c", "r", "t" >>, << "G", ".", "t", "x", "t" >> })
    \cup InCollection(<< "B" >>, { << "G", ".", "d", "6", "4" >> })

\* A second tree: the single-file variants of one game that differ in their
\* region tag (tests/integration/test_regional_prioritization.py lines 36-38),
\* in two collections, and a cartridge of it.
RegionalTree ==
  InCollection(<< "A" >>, { << "G", " ", "(", "E", "u", "r", "o", "p", "e", ")", ".", "d", "6", "4" >>, << "G", " ", "(", "U", "S", "A", ")", ".", "d", "6", "4" >>, << "G", " ", "(", "W", "o", "r", "l", "d", ")", ".", "d", "6", "4" >>, << "G", " ", "(", "U", "S", "A", ")", ".", "c", "r", "t" >> })
    \cup InCollection(<< "B" >>, { << "G", " ", "(", "E", "u", "r", "o", "p", "e", ")", ".", "d", "6", "4" >> })

\* Every file of the two trees.
Files == SourceTree \cup RegionalTree

\* game_data = process_file(file_path, collection_name) for every file of
\* the trees (the classification is a function of the path alone).
Processed == [f \in Files |-> process_file(f.file_path, f.collection)]

Skipped == [f \in Files |-> should_skip_file(f.file_path, basename(f.file_path))]

(***************************************************************************)
(* State                                                                   *)
(***************************************************************************)
VARIABLES
  games,          \* table games
  game_versions,  \* table game_versions
  game_parts,     \* table game_parts
  region_cols,    \* game_versions has the columns region, region_priority
  scanned,        \* the files of the tree scan_directory has visited
  skipped_files,  \* scan_directory: skipped_files
  error_files,    \* scan_directory: error_files
  status,         \* outcome of the last generate_merge_script call
  exported,       \* the database that call read
  best_versions,  \* the rows it fetched (merger.py line 112)
  sh_file,        \* the shell script it wrote
  cmd_file,       \* the batch script it wrote
  file_count,     \* the count it returned
  argument,       \* the file name a classification function is called with
  called,         \* the classification function that was called
  returned        \* what it returned

vars ==
  << games, game_versions, game_parts, region_cols, scanned, skipped_files,
     error_files, status, exported, best_versions, sh_file, cmd_file, file_count,
     argument, called, returned >>

callvars == << argument, called, returned >>

dbvars == << games, game_versions, game_parts, region_cols >>

outvars == << status, exported, best_versions, sh_file, cmd_file, file_count >>

\* The database the connection sees.
DB ==
  [ games |-> games, game_versions |-> game_versions,
    game_parts |-> game_parts, region_cols |-> region_cols ]

\* No function of utils/ is called while the catalog is built and exported
\* step by step.
NoCall ==
  /\ argument = None
  /\ called = "none"
  /\ returned = None

Init ==
  /\ games = << >>
  /\ game_versions = << >>
  /\ game_parts = << >>
  /\ region_cols \in BOOLEAN
  /\ NoCall
  /\ scanned = {}
  /\ skipped_files = 0
  /\ error_files = 0
  /\ status = "none"
  /\ exported = EmptyDb(region_cols)
  /\ best_versions = << >>
  /\ sh_file = << >>
  /\ cmd_file = << >>
  /\ file_count = 0

\* The tables after a call of insert_game.
Stored(db) ==
  /\ games' = db.games
  /\ game_versions' = db.game_versions
  /\ game_parts' = db.game_parts

\* One file of the walk: skipped, without identity, or inserted.
Visit(skip, game_data) ==
  IF skip \/ game_data = None
  THEN /\ skipped_files' = skipped_files + 1
       /\ UNCHANGED dbvars
  ELSE /\ Stored(insert_game(DB, game_data))
       /\ UNCHANGED << region_cols, skipped_files >>

\* scan_directory visits one more file and, unless the file is skipped or
\* has no identity, the importer inserts its record.
ImportFile(f) ==
  /\ f \notin scanned
  /\ Cardinality(scanned) < MaxFiles
  /\ scanned' = scanned \cup { f }
  /\ Visit(Skipped[f], Processed[f])
  /\ UNCHANGED << error_files, outvars, callvars >>

\* What generate_merge_script left behind on the database it read.
Written(db, out) ==
  /\ status' = IF out.exception = "" THEN "generated" ELSE out.exception
  /\ exported' = db
  /\ best_versions' = out.best_versions
  /\ sh_file' = out.sh_file
  /\ cmd_file' = out.cmd_file
  /\ file_count' = IF out.exception = "" THEN out.file_count ELSE file_count

GenerateMergeScript ==
  /\ Written(DB, generate_merge_script(DB, TARGET_DIR))
  /\ UNCHANGED << dbvars, scanned, skipped_files, error_files, callvars >>

Next ==
  \/ \E f \in SourceTree : ImportFile(f)
  \/ GenerateMergeScript

Spec == Init /\ [][Next]_vars

\* The same program on the tree of regional variants.
NextRegional ==
  \/ \E f \in RegionalTree : ImportFile(f)
  \/ GenerateMergeScript

SpecRegional == Init /\ [][NextRegional]_vars

(***************************************************************************)
(* Selection: get_best_versions                                            *)
(***************************************************************************)
\* The classified record process_file made of the file at a path.
RecordOf(path) == Processed[CHOOSE f \in Files : f.file_path = path]

\* Successive insert_game calls on one connection.
RECURSIVE InsertAll(_, _)
InsertAll(db, records) ==
  IF records = << >> THEN db
  ELSE InsertAll(insert_game(db, Head(records)), Tail(records))

\* C1: whenever generate_merge_script has run on a catalog that holds a
\* game, its call of get_best_versions returned rows, and for every game of the catalog these rows are the parts
\* of exactly one version that no other version of the game precedes under
\* (format_priority descending, region_priority descending, collection
\* ascending).
C1_BestVersionFirstUnderRanking ==
  (status # "none" /\ exported.games # << >>) =>
    /\ status = "generated"
    /\ \A g \in 1..Len(exported.games) :
         LET rows == SelectSeq(best_versions,
                               LAMBDA r : r.clean_name = exported.games[g].clean_name)
             Precedes(w, v) ==
               LET vw == exported.game_versions[w]
                   vv == exported.game_versions[v]
               IN  \/ vw.format_priority > vv.format_priority
                   \/ /\ vw.format_priority = vv.format_priority
                      /\ vw.region_priority > vv.region_priority
                   \/ /\ vw.format_priority = vv.format_priority
                      /\ vw.region_priority = vv.region_priority
                      /\ StrLess(vw.collection, vv.collection)
         IN  \E v \in VersionsOf(exported, g) :
               /\ \A w \in VersionsOf(exported, g) : ~ Precedes(w, v)
               /\ Len(rows) = Cardinality(PartsOf(exported, v))
               /\ { rows[i].source_path : i \in 1..Len(rows) }
                    = { exported.game_parts[p].source_path : p \in PartsOf(exported, v) }

\* C2: the rows get_best_versions returned (game, format and source path,
\* in order) are the rows it returns on the catalog built by inserting the
\* same records in any other order.
C2_SelectionIndependentOfInsertOrder ==
  status = "generated" =>
    LET n        == Len(exported.game_parts)
        records  == [i \in 1..n |-> RecordOf(exported.game_parts[i].source_path)]
        Chosen(rows) ==
          [i \in 1..Len(rows) |->
             << rows[i].clean_name, rows[i].format, rows[i].source_path >>]
    IN  \A p \in Permutations(1..n) :
          Chosen(get_best_versions(
                   InsertAll(EmptyDb(exported.region_cols),
                             [i \in 1..n |-> records[p[i]]])).rows)
            = Chosen(best_versions)

\* C3: every version has a part and every game has a version, and whenever
\* generate_merge_script has run on a catalog that holds a game,
\* get_best_versions returned rows for every game of the catalog, all of
\* them parts of one version of the game.
C3_EveryGameSelectedOnce ==
  /\ \A v \in 1..Len(game_versions) : PartsOf(DB, v) # {}
  /\ \A g \in 1..Len(games) : VersionsOf(DB, g) # {}
  /\ (status # "none" /\ exported.games # << >>) =>
       /\ status = "generated"
       /\ \A g \in 1..Len(exported.games) :
            LET rows == SelectSeq(best_versions,
                                  LAMBDA r : r.clean_name = exported.games[g].clean_name)
            IN  /\ rows # << >>
                /\ \E v \in VersionsOf(exported, g) :
                     \A i \in 1..Len(rows) :
                       \E p \in PartsOf(exported, v) :
                         exported.game_parts[p].source_path = rows[i].source_path

\* C4: the catalog holds one game per clean_name and one version per
\* (game, collection, format), and every insert_game call adds exactly one
\* part, under the existing game of its clean_name if there is one, and
\* under the existing version of its (clean_name, collection, format) if
\* there is one, and under a new version of that game otherwise.
C4_OneGamePerNameOneVersionPerKey ==
  /\ [](\A i, j \in 1..Len(games) :
          games[i].clean_name = games[j].clean_name => i = j)
  /\ [](\A i, j \in 1..Len(game_versions) :
          ( /\ game_versions[i].game_id = game_versions[j].game_id
            /\ game_versions[i].collection = game_versions[j].collection
            /\ game_versions[i].format = game_versions[j].format ) => i = j)
  /\ [][ game_parts' # game_parts =>
           LET part    == game_parts'[Len(game_parts')]
               data    == RecordOf(part.source_path)
               version == game_versions'[part.version_id]
               known   == { g \in 1..Len(games) : games[g].clean_name = data.clean_name }
               same    == { v \in 1..Len(game_versions) :
                              /\ game_versions[v].game_id \in known
                              /\ game_versions[v].collection = data.collection
                              /\ game_versions[v].format = data.format }
           IN  /\ game_parts' = Append(game_parts, part)
               /\ IF known # {} THEN games' = games
                  ELSE games' = Append(games, [clean_name |-> data.clean_name])
               /\ games'[version.game_id].clean_name = data.clean_name
               /\ version.collection = data.collection
               /\ version.format = data.format
               /\ IF same # {}
                  THEN game_versions' = game_versions /\ part.version_id \in same
                  ELSE /\ game_versions' = Append(game_versions, version)
                       /\ part.version_id = Len(game_versions) + 1
         ]_vars

\* C4 witness: one version that took a second part, in a game that has a
\* second version.
C4_Witness ==
  \E v \in 1..Len(game_versions) :
    /\ Cardinality(PartsOf(DB, v)) > 1
    /\ Cardinality(VersionsOf(DB, game_versions[v].game_id)) > 1

\* C5: no two parts of one version have the same part_number.
C5_PartNumbersUnique ==
  \A a, b \in 1..Len(game_parts) :
    ( /\ a # b
      /\ game_parts[a].version_id = game_parts[b].version_id )
      => game_parts[a].part_number # game_parts[b].part_number

(***************************************************************************)
(* Export: the script generate_merge_script wrote for the catalog it read  *)
(***************************************************************************)
\* os.path.join(target_dir, name) as the script names it (line 146).
TargetPath(name) == normalize_path_for_script(join(TARGET_DIR, name))

\* The parts of all versions of a game of the exported catalog.
AllPartsOf(g) ==
  { p \in 1..Len(exported.game_parts) :
      exported.game_versions[exported.game_parts[p].version_id].game_id = g }

\* The copy commands of the script that copy a file of game g.
CopiesOf(g) ==
  { i \in 1..Len(sh_file) :
      /\ sh_file[i].cmd = "cp"
      /\ \E p \in AllPartsOf(g) :
           sh_file[i].source_path
             = normalize_path_for_script(exported.game_parts[p].source_path) }

\* The mkdir commands of the script for the subdirectory of game g.
SubdirsOf(g) ==
  { i \in 1..Len(sh_file) :
      /\ sh_file[i].cmd = "mkdir"
      /\ sh_file[i].directory
           = TargetPath(sanitize_directory_name(exported.games[g].clean_name)) }

\* The playlists the script writes for game g.
PlaylistsOf(g) ==
  { i \in 1..Len(sh_file) :
      /\ sh_file[i].cmd = "cat"
      /\ sh_file[i].m3u_path
           = TargetPath(sanitize_directory_name(exported.games[g].clean_name)
                          \o << ".", "m", "3", "u" >>) }

\* <name>.<format> of the selected version of game g.
SingleFile(g) ==
  sanitize_directory_name(exported.games[g].clean_name) \o << "." >>
    \o exported.game_versions[BestVersion(exported, g)].format

\* <name>/<name> (Disk <part_number>).<format> of the selected version.
DiskFile(g, part_number) ==
  LET name == sanitize_directory_name(exported.games[g].clean_name)
  IN  join(name, name \o << " ", "(", "D", "i", "s", "k", " " >> \o IntToStr(part_number) \o << ")", "." >>
                   \o exported.game_versions[BestVersion(exported, g)].format)

\* C6: the script treats the selected version of a game as multi-part
\* (subdirectory, Disk n file names, playlist) if the version has more than
\* one part or a part with part_number > 0, and as single-part (one file in
\* the export root, no subdirectory, no playlist) otherwise.
C6_MultiPartExactlyWhen ==
  status = "generated" =>
    \A g \in 1..Len(exported.games) :
      LET parts == PartsOf(exported, BestVersion(exported, g))
          multi == \/ Cardinality(parts) > 1
                   \/ \E p \in parts : exported.game_parts[p].part_number > 0
      IN  IF multi
          THEN /\ SubdirsOf(g) # {}
               /\ PlaylistsOf(g) # {}
               /\ \A i \in CopiesOf(g) :
                    \E p \in parts :
                      sh_file[i].target_path
                        = TargetPath(DiskFile(g, exported.game_parts[p].part_number))
          ELSE /\ SubdirsOf(g) = {}
               /\ PlaylistsOf(g) = {}
               /\ \A i \in CopiesOf(g) :
                    sh_file[i].target_path = TargetPath(SingleFile(g))

\* C7: for a game whose selected version has one part the script holds
\* exactly one copy command, from that part to <target_dir>/<name>.<format>,
\* no mkdir of a subdirectory of the game and no playlist of the game.
C7_SinglePartExport ==
  status = "generated" =>
    \A g \in 1..Len(exported.games) :
      LET parts == PartsOf(exported, BestVersion(exported, g))
      IN  Cardinality(parts) = 1 =>
            /\ Cardinality(CopiesOf(g)) = 1
            /\ \A i \in CopiesOf(g) :
                 /\ sh_file[i].target_path = TargetPath(SingleFile(g))
                 /\ \E p \in parts :
                      sh_file[i].source_path
                        = normalize_path_for_script(exported.game_parts[p].source_path)
            /\ SubdirsOf(g) = {}
            /\ PlaylistsOf(g) = {}

\* C7 witness: a script with the copy command of a one-part game next to
\* the playlist of another game.
C7_Witness ==
  /\ status = "generated"
  /\ \E g, h \in 1..Len(exported.games) :
       /\ Cardinality(PartsOf(exported, BestVersion(exported, g))) = 1
       /\ CopiesOf(g) # {}
       /\ PlaylistsOf(h) # {}

\* C8: for a game whose selected version has n > 1 parts the script holds n
\* copy commands, one from each part to
\* <target_dir>/<name>/<name> (Disk <part_number>).<format>, and exactly one
\* playlist <target_dir>/<name>.m3u.
C8_MultiPartExport ==
  status = "generated" =>
    \A g \in 1..Len(exported.games) :
      LET parts == PartsOf(exported, BestVersion(exported, g))
      IN  Cardinality(parts) > 1 =>
            /\ Cardinality(CopiesOf(g)) = Cardinality(parts)
            /\ \A p \in parts :
                 \E i \in CopiesOf(g) :
                   /\ sh_file[i].source_path
                        = normalize_path_for_script(exported.game_parts[p].source_path)
                   /\ sh_file[i].target_path
                        = TargetPath(DiskFile(g, exported.game_parts[p].part_number))
            /\ Cardinality(PlaylistsOf(g)) = 1

\* C8 witness: a script that copies the two parts of a selected version and
\* writes the playlist.
C8_Witness ==
  /\ status = "generated"
  /\ \E g \in 1..Len(exported.games) :
       /\ Cardinality(PartsOf(exported, BestVersion(exported, g))) > 1
       /\ Cardinality(CopiesOf(g)) > 1
       /\ PlaylistsOf(g) # {}

\* C9: the rows get_best_versions returned for a game are in ascending
\* part_number order, and the playlist of a game whose selected version has
\* more than one part holds one entry <relative path>|Disk <part_number>
\* per part of that version, in the order of these rows.
C9_PlaylistInPartOrder ==
  status = "generated" =>
    /\ \A i, j \in 1..Len(best_versions) :
         (i < j /\ best_versions[i].clean_name = best_versions[j].clean_name)
           => best_versions[i].part_number <= best_versions[j].part_number
    /\ \A g \in 1..Len(exported.games) :
         LET parts == PartsOf(exported, BestVersion(exported, g))
             rows  == SelectSeq(best_versions,
                                LAMBDA r : r.clean_name = exported.games[g].clean_name)
         IN  Cardinality(parts) > 1 =>
               /\ PlaylistsOf(g) # {}
               /\ Len(rows) = Cardinality(parts)
               /\ { rows[k].source_path : k \in 1..Len(rows) }
                    = { exported.game_parts[p].source_path : p \in parts }
               /\ \A i \in PlaylistsOf(g) :
                    sh_file[i].disk_files
                      = [k \in 1..Len(rows) |->
                           [ rel_path |-> DiskFile(g, rows[k].part_number),
                             label    |-> << "D", "i", "s", "k", " " >> \o IntToStr(rows[k].part_number) ]]

\* C9 witness: a playlist of a version whose parts were inserted in
\* descending part_number order.
C9_Witness ==
  /\ status = "generated"
  /\ \E g \in 1..Len(exported.games) :
       /\ PlaylistsOf(g) # {}
       /\ \E a, b \in PartsOf(exported, BestVersion(exported, g)) :
            /\ a < b
            /\ exported.game_parts[a].part_number > exported.game_parts[b].part_number

\* C10: for a game all of whose parts have part_number 0 the script holds
\* exactly one copy command, to <target_dir>/<name>.<format>, no mkdir of a
\* subdirectory of the game and no playlist of the game.
C10_PlainGameOneFile ==
  status = "generated" =>
    \A g \in 1..Len(exported.games) :
      (\A p \in AllPartsOf(g) : exported.game_parts[p].part_number = 0) =>
        /\ Cardinality(CopiesOf(g)) = 1
        /\ \A i \in CopiesOf(g) : sh_file[i].target_path = TargetPath(SingleFile(g))
        /\ SubdirsOf(g) = {}
        /\ PlaylistsOf(g) = {}

(***************************************************************************)
(* Regional variants of one game                                           *)
(***************************************************************************)
\* C11: whenever generate_merge_script has run on a catalog in which the
\* only version of a game holds several single-file variants (part_number 0)
\* with different region priorities, the script holds exactly one copy
\* command for the game and it copies the variant with the highest region
\* priority.
C11_HighestRegionVariantExported ==
  status # "none" =>
    \A g \in 1..Len(exported.games) :
      \A v \in VersionsOf(exported, g) :
        LET parts == PartsOf(exported, v)
            Priority(p) ==
              RecordOf(exported.game_parts[p].source_path).region_priority
        IN  ( /\ VersionsOf(exported, g) = { v }
              /\ Cardinality(parts) > 1
              /\ \A p \in parts : exported.game_parts[p].part_number = 0
              /\ \A p, q \in parts : p # q => Priority(p) # Priority(q) )
            => /\ status = "generated"
               /\ Cardinality(CopiesOf(g)) = 1
               /\ \A i \in CopiesOf(g) :
                    \E p \in parts :
                      /\ sh_file[i].source_path
                           = normalize_path_for_script(exported.game_parts[p].source_path)
                      /\ \A q \in parts : Priority(p) >= Priority(q)

(***************************************************************************)
(* Files without a title                                                   *)
(***************************************************************************)
\* C12: every game of the catalog has a non-empty clean_name, and the visit
\* of a file that passes should_skip_file and whose clean name is empty
\* gets None from process_file, adds one to skipped_files, leaves
\* error_files alone and adds no game, version or part.
C12_EmptyNameDropped ==
  /\ [](\A g \in 1..Len(games) : games[g].clean_name # << >>)
  /\ [][ \A f \in SourceTree :
           ( /\ f \notin scanned
             /\ scanned' = scanned \cup { f }
             /\ ~ Skipped[f]
             /\ clean_name(basename(f.file_path)) = << >> )
           => /\ Processed[f] = None
              /\ skipped_files' = skipped_files + 1
              /\ error_files' = error_files
              /\ UNCHANGED << games, game_versions, game_parts >>
       ]_vars

\* C12 witness: the scan has visited a file without a title, after a file
\* that became a game.
C12_Witness ==
  /\ games # << >>
  /\ skipped_files > 0
  /\ \E f \in scanned :
       /\ ~ Skipped[f]
       /\ clean_name(basename(f.file_path)) = << >>

(***************************************************************************)
(* The classification functions of utils/, called on file names that are   *)
(* put together from a title and the tags collections append to it         *)
(***************************************************************************)
\* A part marker as it is written, with what it says.
Marker(text, kind, number) == [ text |-> text, kind |-> kind, number |-> number ]

NoMarker == Marker(<< >>, "none", 0)

\* The words of a title, joined by single spaces.
RECURSIVE JoinWords(_)
JoinWords(words) ==
  IF words = << >> THEN << >>
  ELSE IF Len(words) = 1 THEN words[1]
  ELSE words[1] \o << " " >> \o JoinWords(Tail(words))

\* A region text as the parenthesised group of a file name.
RegionGroup(region) ==
  IF region = << >> THEN << >> ELSE << " ", "(" >> \o region \o << ")" >>

\* The file name and the directory an argument stands for.
NameOf(a) ==
  JoinWords(a.title) \o RegionGroup(a.region) \o a.version \o a.suffix
    \o a.group \o a.part.text \o a.ext

PathOf(a) == a.dir.text

\* The same title without any tag, with the extension.
BareNameOf(a) == JoinWords(a.title) \o a.ext

Plain ==
  [ dir |-> NoMarker, title |-> << << "G" >> >>, region |-> << >>, version |-> << >>,
    suffix |-> << >>, group |-> << >>, part |-> NoMarker, ext |-> << ".", "d", "6", "4" >> ]

\* How many words a title of RomanTitles has at most.
MaxWords == 2

\* Titles of words that are, hold or look like Roman numerals
\* (tests/unit/test_name_cleaner.py lines 32-39 and 53-56).
RomanWords ==
  { << "G", "a", "m", "e" >>, << "W", "i", "n", "t", "e", "r" >>, << "C", "a", "l", "i", "f", "o", "r", "n", "i", "a" >>, << "I" >>, << "I", "I" >>, << "I", "I", "I" >>, << "I", "V" >>, << "V" >>, << "V", "I" >>, << "V", "I", "I" >>,
    << "V", "I", "I", "I" >>, << "I", "X" >>, << "X" >>, << "X", "I", "I", "I" >> }

RomanTitles ==
  UNION { [1..n -> RomanWords] : n \in 1..MaxWords }

RomanNames == { [Plain EXCEPT !.title = t] : t \in RomanTitles }

\* The tags of TaggedNames: region texts, version markers, suffix groups,
\* other groups and trailing part markers, each with the empty choice
\* (tests/unit/test_name_cleaner.py lines 10-51).
TaggedTitles == { << << "G" >> >>, << << "U", "p" >>, << "I", "I" >> >> }

RegionTags == { << >>, << "U", "S", "A" >>, << "E", "u", "r", "o", "p", "e" >> }

VersionTags == { << >>, << " ", "(", "v", "1", ".", "2", ")" >>, << " ", "v", "1", ".", "0" >>, << " ", "(", "V", "e", "r", "s", "i", "o", "n", " ", "2", ")" >> }

SuffixTags == { << >>, << " ", "(", "A", "l", "t", ")" >>, << " ", "[", "B", "u", "d", "g", "e", "t", "]" >> }

GroupTags == { << >>, << " ", "(", "8", "5", ")" >>, << " ", "[", "h", "]" >> }

TrailingParts ==
  { NoMarker, Marker(<< " ", "(", "D", "i", "s", "k", " ", "1", ")" >>, "number", 1), Marker(<< " ", "S", "i", "d", "e", " ", "2", " ", "x" >>, "number", 2) }

TaggedExtensions == { << ".", "d", "6", "4" >>, << ".", "C", "R", "T" >> }

\* Names with any combination of a region group, a version marker, a suffix
\* group, another group and a trailing part marker.
TaggedNames ==
  { [Plain EXCEPT !.title = t, !.region = r, !.version = v, !.suffix = s,
                  !.group = g, !.part = p, !.ext = e] :
      t \in TaggedTitles, r \in RegionTags, v \in VersionTags, s \in SuffixTags,
      g \in GroupTags, p \in TrailingParts, e \in TaggedExtensions }

\* The phrases of the deny list as names carry them
\* (tests/unit/test_format_handler.py lines 51-58), and no phrase.
DenyTags ==
  { << >>, << " ", "(", "T", "a", "p", "e", " ", "P", "o", "r", "t", " ", "D", "o", "n", "g", "l", "e", ")" >>, << " ", "S", "a", "v", "e", "d", "i", "s", "k" >>, << " ", "(", "S", "p", "e", "c", "i", "a", "l", " ", "E", "d", "i", "t", "i", "o", "n", ")" >>, << " ", "(", "v", "2", ")" >>,
    << " ", "(", "R", "e", "-", "r", "e", "l", "e", "a", "s", "e", ")" >> }

\* Part markers of file names (tests/unit/test_format_handler.py 60-106).
PartMarkers ==
  { NoMarker,
    Marker(<< " ", "(", "D", "i", "s", "k", " ", "2", ")" >>, "number", 2), Marker(<< " ", "(", "S", "i", "d", "e", " ", "1", "2", ")" >>, "number", 12),
    Marker(<< " ", "-", " ", "P", "a", "r", "t", " ", "3", " ", "-", " ", "x" >>, "number", 3),
    Marker(<< " ", "(", "S", "i", "d", "e", " ", "A", ")" >>, "letter", 1), Marker(<< " ", "(", "S", "i", "d", "e", " ", "B", ")" >>, "letter", 2),
    Marker(<< " ", "(", "L", "e", "v", "e", "l", "s", " ", "1", " ", "a", "n", "d", " ", "2", ")" >>, "levels", 1), Marker(<< " ", "(", "L", "e", "v", "e", "l", "s", " ", "3", " ", "&", " ", "4", ")" >>, "levels", 3),
    Marker(<< " ", "(", "L", "e", "v", "e", "l", " ", "5", ")" >>, "levels", 5) }

\* Part markers of directories.
DirMarkers ==
  { NoMarker,
    Marker(<< "D", "i", "s", "k", " ", "4", "/" >>, "number", 4), Marker(<< "S", "i", "d", "e", " ", "B", "/" >>, "letter", 2),
    Marker(<< "L", "e", "v", "e", "l", "s", " ", "7", "-", "8", "/" >>, "levels", 7), Marker(<< "X", " ", "(", "v", "2", ")", "/" >>, "denied", 0) }

PartNames ==
  { [Plain EXCEPT !.dir = d, !.part = p, !.suffix = s, !.region = r] :
      d \in DirMarkers, p \in PartMarkers, s \in DenyTags,
      r \in { << >>, << "E", "u", "r", "o", "p", "e" >> } }

\* Region texts (tests/unit/test_region_prioritization.py lines 36-53).
RegionTexts ==
  { << "E", "u", "r", "o", "p", "e" >>, << "P", "A", "L" >>, << "W", "o", "r", "l", "d" >>, << "U", "S", "A" >>, << "J", "a", "p", "a", "n" >>, << "N", "T", "S", "C" >>,
    << "U", "S", "A", ",", " ", "E", "u", "r", "o", "p", "e" >>, << "E", "u", "r", "o", "p", "e", ",", " ", "U", "S", "A" >>, << "J", "a", "p", "a", "n", ",", " ", "U", "S", "A" >>, << "N", "T", "S", "C", ",", " ", "P", "A", "L" >>, << "W", "o", "r", "l", "d", ",", " ", "J", "a", "p", "a", "n" >>,
    << "J", "a", "p", "a", "n", ",", " ", "N", "T", "S", "C" >>, << "E", "n", "g", "l", "i", "s", "h" >>, << "F", "r" >>, << "e", "u", "r", "o", "p", "e" >>, << "E", "u", "r" >>, << "U", "n", "k", "n", "o", "w", "n" >> }

RegionNames == { [Plain EXCEPT !.region = r] : r \in RegionTexts }

\* Extensions (tests/unit/test_format_handler.py lines 14-26).
Extensions ==
  { << ".", "c", "r", "t" >>, << ".", "C", "R", "T" >>, << ".", "C", "r", "t" >>, << ".", "d", "6", "4" >>, << ".", "D", "6", "4" >>, << ".", "g", "6", "4" >>, << ".", "n", "i", "b" >>, << ".", "N", "I", "B" >>, << ".", "p", "r", "g" >>,
    << ".", "P", "R", "G" >>, << ".", "t", "a", "p" >>, << ".", "t", "6", "4" >>, << ".", "T", "6", "4" >>, << ".", "t", "x", "t" >>, << ".", "z", "i", "p" >>, << ".", "c", "r", "t", ".", "z", "i", "p" >>, << ".", "z", "i", "p", ".", "c", "r", "t" >>, << ".", "d", "6", "4", ".", "p", "r", "g" >>, << "." >> }

FormatNames == { [Plain EXCEPT !.ext = e] : e \in Extensions }

\* Words of the names the sanitizer is tested on
\* (tests/unit/test_path_sanitizer.py lines 12-53).
SanitizerWords ==
  { << "M", "y" >>, << "G", "a", "m", "e" >>, << "." >>, << ".", ".", "." >>, << "_", "_" >>,
    << "B", "a", "d", ":", "N", "a", "m", "e" >>, << "<", "\"", ">" >>, << "?", "*", "|" >>, << "/", "\\" >> }

SanitizerTitles ==
  UNION { [1..n -> SanitizerWords] : n \in 1..MaxWords }

\* Directory names: no extension.
SanitizerNames ==
  { [Plain EXCEPT !.title = t, !.region = r, !.ext = << >>] :
      t \in SanitizerTitles, r \in { << >>, << "U", "S", "A" >> } }

\* The directory name an argument stands for: the title and the region group.
DirectoryNameOf(a) == JoinWords(a.title) \o RegionGroup(a.region)

Arguments ==
  RomanNames \cup TaggedNames \cup PartNames \cup RegionNames \cup FormatNames
    \cup SanitizerNames

\* One call: the function gets its argument and returns.
Return(fn, value) ==
  /\ called' = fn
  /\ returned' = value
  /\ UNCHANGED << argument, dbvars, scanned, skipped_files, error_files, outvars >>

CallCleanName ==
  /\ called = "none"
  /\ Return("clean_name", clean_name(NameOf(argument)))

CallExtractRegion ==
  /\ called = "none"
  /\ Return("extract_region", extract_region(NameOf(argument)))

CallGetRegionPriority ==
  /\ called = "none"
  /\ Return("get_region_priority", get_region_priority(argument.region))

CallGetFormatPriority ==
  /\ called = "none"
  /\ Return("get_format_priority", get_format_priority(NameOf(argument)))

CallIsMultiPart ==
  /\ called = "none"
  /\ Return("is_multi_part", is_multi_part(PathOf(argument), NameOf(argument)))

CallGetMultiPartInfo ==
  /\ called = "none"
  /\ Return("get_multi_part_info", get_multi_part_info(PathOf(argument), NameOf(argument)))

CallProcessFile ==
  /\ called = "none"
  /\ Return("process_file", process_file(NameOf(argument), << "A" >>))

CallSanitizeDirectoryName ==
  /\ called = "none"
  /\ Return("sanitize_directory_name", sanitize_directory_name(DirectoryNameOf(argument)))

InitCall ==
  /\ games = << >>
  /\ game_versions = << >>
  /\ game_parts = << >>
  /\ region_cols = FALSE
  /\ scanned = {}
  /\ skipped_files = 0
  /\ error_files = 0
  /\ status = "none"
  /\ exported = EmptyDb(region_cols)
  /\ best_versions = << >>
  /\ sh_file = << >>
  /\ cmd_file = << >>
  /\ file_count = 0
  /\ argument \in Arguments
  /\ called = "none"
  /\ returned = None

NextCall ==
  \/ CallCleanName
  \/ CallExtractRegion
  \/ CallGetRegionPriority
  \/ CallGetFormatPriority
  \/ CallIsMultiPart
  \/ CallGetMultiPartInfo
  \/ CallProcessFile
  \/ CallSanitizeDirectoryName

SpecCall == InitCall /\ [][NextCall]_vars

(***************************************************************************)
(* Multi-part detection and part numbers                                   *)
(***************************************************************************)
\* path + filename of the argument.
FullPathOf(a) == PathOf(a) \o NameOf(a)

\* C13: for a path + filename that contains one of the phrases Tape Port
\* Dongle, Savedisk, Special Edition, (v2), Re-release, is_multi_part
\* returns False and get_multi_part_info returns 0, whatever part markers
\* the name and the directory carry.
C13_DenyListWins ==
  (\E phrase \in { << "T", "a", "p", "e", " ", "P", "o", "r", "t", " ", "D", "o", "n", "g", "l", "e" >>, << "S", "a", "v", "e", "d", "i", "s", "k" >>, << "S", "p", "e", "c", "i", "a", "l", " ", "E", "d", "i", "t", "i", "o", "n" >>, << "(", "v", "2", ")" >>,
                   << "R", "e", "-", "r", "e", "l", "e", "a", "s", "e" >> } :
     Contains(FullPathOf(argument), phrase))
  => /\ called = "is_multi_part" => returned = FALSE
     /\ called = "get_multi_part_info" => returned = 0

\* C13 witness: get_multi_part_info has returned for a name that carries a
\* Disk n marker next to the phrase (v2).
C13_Witness ==
  /\ called = "get_multi_part_info"
  /\ Contains(FullPathOf(argument), << "(", "v", "2", ")" >>)
  /\ Contains(FullPathOf(argument), << "(", "D", "i", "s", "k", " ", "2", ")" >>)
  /\ returned = 0

\* C14: for every name for which is_multi_part('', name) is True,
\* extract_region returns the empty string and the record process_file
\* makes of the file has region_priority 0.
C14_MultiPartHasNoRegion ==
  is_multi_part(<< >>, NameOf(argument))
  => /\ called = "extract_region" => returned = << >>
     /\ (called = "process_file" /\ returned # None) => returned.region_priority = 0

TierOf(name) ==
  LET ext == LowerStr(SubSeq(name, LastIndexOf(name, ".") + 1, Len(name)))
  IN  IF ext = << "c", "r", "t" >> THEN 4
      ELSE IF ext \in { << "d", "6", "4" >>, << "g", "6", "4" >>, << "n", "i", "b" >> } THEN 3
      ELSE IF ext = << "p", "r", "g" >> THEN 2
      ELSE IF ext \in { << "t", "a", "p" >>, << "t", "6", "4" >> } THEN 1
      ELSE 0

\* C16: get_format_priority orders names as their final extensions, taken
\* case-insensitively, are ordered by crt > d64 = g64 = nib > prg >
\* tap = t64 > any other extension, and returns 0 exactly for the other
\* extensions.
C16_FormatPriorityOrder ==
  called = "get_format_priority" =>
    /\ returned = 0 <=> TierOf(NameOf(argument)) = 0
    /\ \A b \in FormatNames :
         /\ TierOf(NameOf(argument)) > TierOf(NameOf(b))
              <=> returned > get_format_priority(NameOf(b))
         /\ TierOf(NameOf(argument)) = TierOf(NameOf(b))
              <=> returned = get_format_priority(NameOf(b))

\* C16 witness: get_format_priority has returned for a name with the
\* extension .T64, above a .txt name and below a .prg name.
C16_Witness ==
  /\ called = "get_format_priority"
  /\ argument.ext = << ".", "T", "6", "4" >>
  /\ returned > get_format_priority(<< "G", ".", "t", "x", "t" >>)
  /\ returned < get_format_priority(<< "G", ".", "p", "r", "g" >>)

\* C17: for a path + filename without a phrase of the deny list,
\* get_multi_part_info returns the number of the first Side/Part/Disk n
\* marker of directory and name if there is one; else 1 or 2 for the first
\* Side A / Side B marker; else (N + 1) div 2 for the first Level(s) N
\* marker; else 0.
C17_PartNumberPrecedence ==
  ( /\ called = "get_multi_part_info"
    /\ ~\E phrase \in { << "T", "a", "p", "e", " ", "P", "o", "r", "t", " ", "D", "o", "n", "g", "l", "e" >>, << "S", "a", "v", "e", "d", "i", "s", "k" >>, << "S", "p", "e", "c", "i", "a", "l", " ", "E", "d", "i", "t", "i", "o", "n" >>, << "(", "v", "2", ")" >>,
                        << "R", "e", "-", "r", "e", "l", "e", "a", "s", "e" >> } :
          Contains(FullPathOf(argument), phrase) )
  => LET markers  == << argument.dir, argument.part >>
         Of(kind) == SelectSeq(markers, LAMBDA m : m.kind = kind)
     IN  returned = IF Of("number") # << >> THEN Head(Of("number")).number
                    ELSE IF Of("letter") # << >> THEN Head(Of("letter")).number
                    ELSE IF Of("levels") # << >>
                      THEN (Head(Of("levels")).number + 1) \div 2
                    ELSE 0

\* C17 witness: get_multi_part_info has returned the number of the
\* directory Disk 4/ for a name that carries a Side A marker.
C17_Witness ==
  /\ called = "get_multi_part_info"
  /\ argument.dir.text = << "D", "i", "s", "k", " ", "4", "/" >>
  /\ argument.part.text = << " ", "(", "S", "i", "d", "e", " ", "A", ")" >>
  /\ argument.suffix = << >>
  /\ returned = 4

(***************************************************************************)
(* Multi-part sets in the catalog                                          *)
(***************************************************************************)
\* The files G (Disk 1).d64 .. G (Disk n).d64 of collection A.
DiskSet(n) ==
  InCollection(<< "A" >>, { << "G", " ", "(", "D", "i", "s", "k", " " >> \o IntToStr(k) \o << ")", ".", "d", "6", "4" >> : k \in 1..n })

\* The files of the tree that insert_game files under game G, collection A,
\* format d64.
SameVersion ==
  { f \in SourceTree :
      /\ ~ Skipped[f]
      /\ Processed[f] # None
      /\ Processed[f].clean_name = << "G" >>
      /\ f.collection = << "A" >>
      /\ Processed[f].format = << "d", "6", "4" >> }

\* C18: once the files G (Disk 1).d64 .. G (Disk n).d64 of one collection
\* are imported, in any order and among files of other games, formats and
\* collections, the catalog holds one game G and one version of it for the
\* collection and format, and this version holds exactly n parts, with
\* part_numbers 1..n, part k being the file Disk k.
C18_MultiPartSetOneVersion ==
  \A n \in 1..2 :
    scanned \cap SameVersion = DiskSet(n) =>
      /\ Cardinality({ g \in 1..Len(games) : games[g].clean_name = << "G" >> }) = 1
      /\ \E v \in 1..Len(game_versions) :
           /\ \A w \in 1..Len(game_versions) :
                ( /\ games[game_versions[w].game_id].clean_name = << "G" >>
                  /\ game_versions[w].collection = << "A" >>
                  /\ game_versions[w].format = << "d", "6", "4" >> ) <=> w = v
           /\ Cardinality(PartsOf(DB, v)) = n
           /\ \A k \in 1..n :
                \E p \in PartsOf(DB, v) :
                  /\ game_parts[p].part_number = k
                  /\ { [collection |-> << "A" >>, file_path |-> game_parts[p].source_path] }
                       = DiskSet(k) \ DiskSet(k - 1)

\* C18 witness: a catalog in which Disk 2 was inserted before Disk 1, next
\* to a file of another format.
C18_Witness ==
  /\ scanned \cap SameVersion = DiskSet(2)
  /\ Cardinality(scanned) = 3
  /\ Len(game_versions) = 2
  /\ \E a, b \in 1..Len(game_parts) :
       /\ a < b
       /\ game_parts[a].part_number = 2
       /\ game_parts[b].part_number = 1

(***************************************************************************)
(* Clean names                                                             *)
(***************************************************************************)
\* What the claim makes of one word of a title.
ArabicOf(word) ==
  CASE word = << "I", "I" >> -> << "2" >>
    [] word = << "I", "I", "I" >> -> << "3" >>
    [] word = << "I", "V" >> -> << "4" >>
    [] word = << "V", "I" >> -> << "6" >>
    [] word = << "V", "I", "I" >> -> << "7" >>
    [] word = << "V", "I", "I", "I" >> -> << "8" >>
    [] OTHER -> word

\* C19: the clean name of a file <title>.d64 without tags is the title with
\* its words II, III, IV, VI, VII, VIII replaced by 2, 3, 4, 6, 7, 8 and
\* every other word (I, V, IX, X, XIII, Winter, California, ...) as it is.
C19_RomanNumeralWords ==
  ( /\ called = "clean_name"
    /\ NameOf(argument) = BareNameOf(argument)
    /\ argument.ext = Plain.ext )
  => returned = JoinWords([i \in 1..Len(argument.title) |-> ArabicOf(argument.title[i])])

\* C19 witness: clean_name has returned 8 IX for the title VIII IX.
C19_Witness ==
  /\ called = "clean_name"
  /\ argument.title = << << "V", "I", "I", "I" >>, << "I", "X" >> >>
  /\ returned = << "8", " ", "I", "X" >>

\* C20: for a title followed by any combination of a region group, a
\* version marker, a suffix group, another bracketed group and a trailing
\* part marker with trailing text, and by an extension, clean_name returns
\* what it returns for the title with the extension alone, which is not
\* empty.
C20_CleanNameOfTitleAlone ==
  ( /\ called = "clean_name"
    /\ argument.dir = NoMarker
    /\ argument.title \in TaggedTitles
    /\ argument.region \in RegionTags
    /\ argument.version \in VersionTags
    /\ argument.suffix \in SuffixTags
    /\ argument.group \in GroupTags
    /\ argument.part \in TrailingParts
    /\ argument.ext \in TaggedExtensions )
  => /\ returned = clean_name(BareNameOf(argument))
     /\ returned # << >>

\* C20 witness: clean_name has returned Up 2 for a name of the title Up II
\* that carries all five tags.
C20_Witness ==
  /\ called = "clean_name"
  /\ argument.title = << << "U", "p" >>, << "I", "I" >> >>
  /\ argument.region # << >>
  /\ argument.version # << >>
  /\ argument.suffix \in SuffixTags \ { << >> }
  /\ argument.group # << >>
  /\ argument.part.text = << " ", "S", "i", "d", "e", " ", "2", " ", "x" >>
  /\ returned = << "U", "p", " ", "2" >>

(***************************************************************************)
(* Directory and file names of the export                                  *)
(***************************************************************************)
\* Words of letters and digits separated by single spaces: a name without
\* any character that is illegal in a file name.
SpacedWords(s) ==
  /\ Len(s) > 0
  /\ \A i \in 1..Len(s) : IsUpper(s[i]) \/ IsLower(s[i]) \/ IsDigit(s[i]) \/ s[i] = " "
  /\ s[1] # " " /\ s[Len(s)] # " "
  /\ \A i \in 1..(Len(s) - 1) : ~(s[i] = " " /\ s[i + 1] = " ")

\* s begins with prefix.
StartsWith(s, prefix) ==
  /\ Len(s) >= Len(prefix)
  /\ SubSeq(s, 1, Len(prefix)) = prefix

\* C21: whenever generate_merge_script has written the script, every copy
\* command of a game whose clean name consists of words separated by single
\* spaces has a target below the export root that begins with exactly that
\* clean name, spaces included.
C21_SpacesKeptInExportedName ==
  status = "generated" =>
    \A g \in 1..Len(exported.games) :
      SpacedWords(exported.games[g].clean_name) =>
        \A i \in CopiesOf(g) :
          StartsWith(sh_file[i].target_path, TargetPath(exported.games[g].clean_name))

\* The characters no file system name may hold.
IllegalChars == { "<", ">", ":", "\"", "|", "?", "*", "/", "\\" }

\* The characters a name may neither begin nor end with.
TrimmedChars == { ".", "_", " " }

\* C22: whatever name sanitize_directory_name is called on, it returns a
\* non-empty name that holds no illegal character and no two underscores in
\* a row and that neither begins nor ends with a dot, an underscore or a
\* space; for a name of dots, underscores and spaces only it returns unnamed.
C22_SanitizedNameWellFormed ==
  called = "sanitize_directory_name" =>
    /\ Len(returned) > 0
    /\ \A i \in 1..Len(returned) : returned[i] \notin IllegalChars
    /\ \A i \in 1..(Len(returned) - 1) : ~(returned[i] = "_" /\ returned[i + 1] = "_")
    /\ returned[1] \notin TrimmedChars
    /\ returned[Len(returned)] \notin TrimmedChars
    /\ (\A i \in 1..Len(DirectoryNameOf(argument)) :
          DirectoryNameOf(argument)[i] \in TrimmedChars)
         => returned = << "u", "n", "n", "a", "m", "e", "d" >>

(***************************************************************************)
(* Ties and collisions                                                     *)
(***************************************************************************)
\* Versions a and b are equal in every key of the ranking.
SameRank(db, a, b) ==
  /\ db.game_versions[a].format_priority = db.game_versions[b].format_priority
  /\ db.game_versions[a].collection = db.game_versions[b].collection
  /\ db.region_cols =>
       db.game_versions[a].region_priority = db.game_versions[b].region_priority

\* C23: whenever generate_merge_script has run on a catalog with the region
\* columns in which the selected version of a game has the same format priority, region priority
\* and collection as another version of the game, the run does not end
\* with a generated script: the tie is reported instead of being decided by
\* the order of insertion.
C23_RankingTieReported ==
  (status # "none" /\ exported.region_cols) =>
    \A g \in 1..Len(exported.games) :
      \A v \in VersionsOf(exported, g) \ { BestVersion(exported, g) } :
        SameRank(exported, BestVersion(exported, g), v) => status # "generated"

\* C24: whenever generate_merge_script has run on a catalog with the region
\* columns in which the selected version of a game holds two parts with the
\* same part_number, the run does not end with a generated script: the
\* collision is reported to the caller instead of being written out as two
\* copy commands.
C24_PartCollisionReported ==
  (status # "none" /\ exported.region_cols) =>
    \A g \in 1..Len(exported.games) :
      \A p, q \in PartsOf(exported, BestVersion(exported, g)) :
        ( /\ p # q
          /\ exported.game_parts[p].part_number = exported.game_parts[q].part_number )
          => status # "generated"

\* C29: no two copy commands of one script have the same target path.
C29_CopyTargetsDistinct ==
  status = "generated" =>
    \A i, j \in 1..Len(sh_file) :
      ( /\ i # j
        /\ sh_file[i].cmd = "cp"
        /\ sh_file[j].cmd = "cp" )
        => sh_file[i].target_path # sh_file[j].target_path

(***************************************************************************)
(* Recognised formats                                                      *)
(***************************************************************************)
\* C28: every file scan_directory has visited whose name get_format_priority
\* maps to 0 is rejected by should_skip_file, and every version of the
\* catalog has a format_priority of at least 1.
C28_OnlyRecognisedFormatsStored ==
  /\ \A f \in scanned :
       get_format_priority(basename(f.file_path)) = 0 => Skipped[f]
  /\ \A v \in 1..Len(game_versions) : game_versions[v].format_priority >= 1

\* C28 witness: the scan has visited G.txt and skipped it, and has stored a
\* version of another file.
C28_Witness ==
  /\ \E f \in scanned : f.file_path = << "r", "o", "m", "s", "/", "A", "/", "G", ".", "t", "x", "t" >>
  /\ skipped_files = 1
  /\ Len(game_versions) >= 1

(***************************************************************************)
(* Order of the commands of the script                                     *)
(***************************************************************************)
\* C30: in every script generate_merge_script has begun, the mkdir of the
\* target directory comes right after the header and before every other
\* command; in a generated script, for every game whose selected version
\* has more than one part the mkdir of its subdirectory is written exactly
\* once and before every copy of the game, exactly one playlist is written
\* for the game, and every playlist comes after every copy command.
C30_ScriptCommandOrder ==
  /\ status # "none" =>
       /\ Len(sh_file) >= 2
       /\ sh_file[1].cmd = "#!/bin/bash"
       /\ sh_file[2] = [cmd |-> "mkdir", directory |-> normalize_path_for_script(TARGET_DIR)]
  /\ status = "generated" =>
       /\ \A g \in 1..Len(exported.games) :
            Cardinality(PartsOf(exported, BestVersion(exported, g))) > 1 =>
              /\ Cardinality(SubdirsOf(g)) = 1
              /\ \A i \in SubdirsOf(g) : \A j \in CopiesOf(g) : i < j
              /\ Cardinality(PlaylistsOf(g)) = 1
       /\ \A i, j \in 1..Len(sh_file) :
            (sh_file[i].cmd = "cat" /\ sh_file[j].cmd = "cp") => j < i

\* C30 witness: a generated script that copies a multi-part game into its
\* subdirectory, then a single-file game, and then writes a playlist.
C30_Witness ==
  /\ status = "generated"
  /\ \E i, j, k, l \in 1..Len(sh_file) :
       /\ i < j /\ j < k /\ k < l
       /\ sh_file[i].cmd = "mkdir" /\ sh_file[i].directory # normalize_path_for_script(TARGET_DIR)
       /\ sh_file[j].cmd = "cp" /\ sh_file[j].target_path = TargetPath(<< "G", "/", "G", " ", "(", "D", "i", "s", "k", " ", "2", ")", ".", "d", "6", "4" >>)
       /\ sh_file[k].cmd = "cp" /\ sh_file[k].target_path = TargetPath(<< "H", "_", "2", ".", "t", "a", "p" >>)
       /\ sh_file[l].cmd = "cat"

(***************************************************************************)
(* What the operations leave alone                                         *)
(***************************************************************************)
\* C26: a step that visits no file (get_best_versions and
\* generate_merge_script) leaves the three tables as they are, and a step
\* that inserts a record only appends rows: every game, version and part
\* of the catalog is still there afterwards under its id, a part with its
\* version, part_number, source_path and original_name and a version with
\* its format_priority.
C26_CatalogOnlyGrows ==
  [][ /\ scanned' = scanned => UNCHANGED dbvars
      /\ region_cols' = region_cols
      /\ StartsWith(games', games)
      /\ StartsWith(game_versions', game_versions)
      /\ StartsWith(game_parts', game_parts) ]_vars

\* C26 witness: after a script was generated from a catalog, insert_game has
\* added a part to a version the catalog already had.
C26_Witness ==
  /\ status = "generated"
  /\ Len(exported.game_parts) >= 1
  /\ Len(game_parts) > Len(exported.game_parts)
  /\ Len(game_versions) = Len(exported.game_versions)

(***************************************************************************)
(* core/verifier.py: check_missing_files                                   *)
(***************************************************************************)
\* The columns create_schema gives the table games.
GamesColumns == { "id", "clean_name" }

\* The columns of games the two queries of check_missing_files read.
VerifierColumns ==
  { "clean_name", "format", "collection", "source_path", "format_priority",
    "is_multi_part", "part_number" }

\* The exception sqlite3 raises for the first query on a table games
\* without these columns.
NoSuchColumn == "OperationalError: no such column: format_priority"

\* ROW_NUMBER() OVER (PARTITION BY clean_name ORDER BY format_priority DESC,
\* collection ASC) among the rows WHERE is_multi_part = multi: the rows with
\* rn = 1 (rows equal in both keys are numbered in rowid order).
RankedGames(db, multi) ==
  LET rows == { i \in 1..Len(db.games) : db.games[i].is_multi_part = multi }
      Before(a, b) ==
        \/ db.games[a].format_priority > db.games[b].format_priority
        \/ /\ db.games[a].format_priority = db.games[b].format_priority
           /\ StrLess(db.games[a].collection, db.games[b].collection)
        \/ /\ db.games[a].format_priority = db.games[b].format_priority
           /\ db.games[a].collection = db.games[b].collection
           /\ a < b
  IN  { a \in rows :
          \A b \in rows \ { a } :
            db.games[b].clean_name = db.games[a].clean_name => Before(a, b) }

\* expected_name of the rows of single_files (line 79).
ExpectedSingles(db) ==
  { db.games[i].clean_name \o << "." >> \o db.games[i].format :
      i \in RankedGames(db, 0) }

\* expected_name of the rows of multi_files (lines 89-93): the rows of the
\* multi-part records joined to the first-ranked one on clean_name, format
\* and collection.
ExpectedMultis(db) ==
  { IF db.games[i].part_number > 0
    THEN db.games[i].clean_name \o << " ", "(", "D", "i", "s", "k", " " >> \o IntToStr(db.games[i].part_number)
           \o << ")", "." >> \o db.games[i].format
    ELSE db.games[i].clean_name \o << "." >> \o db.games[i].format :
      i \in { g \in 1..Len(db.games) :
                /\ db.games[g].is_multi_part = 1
                /\ \E r \in RankedGames(db, 1) :
                     /\ db.games[g].clean_name = db.games[r].clean_name
                     /\ db.games[g].format = db.games[r].format
                     /\ db.games[g].collection = db.games[r].collection } }

\* check_missing_files(db_path, target_dir): the exception execute() raises,
\* or the paths whose existence the call tests, with the database it read.
check_missing_files(db, target_dir) ==
  IF VerifierColumns \subseteq GamesColumns
  THEN [ exception |-> "",
         expected  |-> { normalize_path_for_script(join(target_dir, n)) :
                           n \in ExpectedSingles(db) \cup ExpectedMultis(db) },
         db        |-> db ]
  ELSE [ exception |-> NoSuchColumn, expected |-> {}, db |-> db ]

\* One call of check_missing_files on the catalog.
CheckMissingFiles ==
  /\ called' = "check_missing_files"
  /\ returned' = check_missing_files(DB, TARGET_DIR)
  /\ UNCHANGED << argument, dbvars, scanned, skipped_files, error_files, outvars >>

\* Import, export and verification of the source tree.
NextVerify ==
  \/ \E f \in SourceTree : ImportFile(f)
  \/ GenerateMergeScript
  \/ CheckMissingFiles

SpecVerify == Init /\ [][NextVerify]_vars

\* C25: whenever generate_merge_script has generated a script from a catalog
\* that holds a game and check_missing_files has run on the same catalog,
\* the verification has raised no exception and the paths it expects are
\* exactly the targets of the copy commands of the script.
C25_VerifierExpectsExportedFiles ==
  ( /\ status = "generated"
    /\ exported.games # << >>
    /\ called = "check_missing_files"
    /\ returned.db = exported )
  => /\ returned.exception = ""
     /\ returned.expected
          = { sh_file[i].target_path : i \in { k \in 1..Len(sh_file) : sh_file[k].cmd = "cp" } }

(***************************************************************************)
(* db/database.py: reset_schema, and core/importer.py: import_games        *)
(***************************************************************************)
\* Variant of the reset below that drops the table games only.
reset_schema_games_only(db) == [db EXCEPT !.games = << >>]

\* DROP TABLE IF EXISTS game_parts, game_versions, games; create_schema():
\* the three tables are empty, and game_versions is the table create_schema
\* makes, without the region columns.
reset_schema(db) == EmptyDb(FALSE)

\* A walk: the files of the source directory in the order in which
\* os.listdir and os.walk yield them, collection after collection.
Walks ==
  { << >> } \cup
  { w \in UNION { [1..n -> SourceTree] : n \in 1..MaxFiles } :
      /\ \A i, j \in 1..Len(w) : i # j => w[i] # w[j]
      /\ \A i, j, k \in 1..Len(w) :
           (i < j /\ j < k /\ w[i].collection = w[k].collection)
             => w[j].collection = w[i].collection }

\* scan_directory over the collections: the files it passes on.
Passed(f) == ~Skipped[f] /\ Processed[f] # None

\* all_game_data (lines 48-53)
AllGameData(walk) ==
  LET kept == SelectSeq(walk, Passed)
  IN  [i \in 1..Len(kept) |-> Processed[kept[i]]]

\* SELECT COUNT(DISTINCT g.id) ... WHERE p1.part_number < p2.part_number
MultiGames(db) ==
  Cardinality({ db.game_versions[db.game_parts[p].version_id].game_id :
                  p \in { q \in 1..Len(db.game_parts) :
                            \E r \in 1..Len(db.game_parts) :
                              /\ db.game_parts[r].version_id = db.game_parts[q].version_id
                              /\ db.game_parts[q].part_number < db.game_parts[r].part_number } })

\* The stats import_games returns for the records it inserted into db.
ImportStats(walk, records, db) ==
  [ total_files     |-> 0,
    processed_files |-> Len(records),
    skipped_files   |-> Len(walk) - Len(records),
    error_files     |-> 0,
    unique_games    |-> Len(db.games),
    multi_games     |-> MultiGames(db) ]

Imported(walk, records, db) == [ db |-> db, stats |-> ImportStats(walk, records, db) ]

ImportAll(db, walk, records) == Imported(walk, records, InsertAll(db, records))

\* import_games(src_dir, db_path): the database and the stats after the
\* call.
import_games(db, walk) == ImportAll(reset_schema(db), walk, AllGameData(walk))

\* What an import leaves behind.
Loaded(walk, out) ==
  /\ Stored(out.db)
  /\ region_cols' = out.db.region_cols
  /\ scanned' = { walk[i] : i \in 1..Len(walk) }
  /\ skipped_files' = out.stats.skipped_files
  /\ returned' = out.stats

\* One run of import_games on the source directory, whose walk is the
\* argument.
ImportGames ==
  /\ called' = "import_games"
  /\ Loaded(argument, import_games(DB, argument))
  /\ UNCHANGED << argument, error_files, outvars >>

\* One call of reset_schema.
ResetSchema ==
  /\ called' = "reset_schema"
  /\ returned' = None
  /\ Stored(reset_schema(DB))
  /\ region_cols' = reset_schema(DB).region_cols
  /\ UNCHANGED << argument, scanned, skipped_files, error_files, outvars >>

\* A database file with or without the region columns and a source
\* directory.
InitImport ==
  /\ games = << >>
  /\ game_versions = << >>
  /\ game_parts = << >>
  /\ region_cols \in BOOLEAN
  /\ scanned = {}
  /\ skipped_files = 0
  /\ error_files = 0
  /\ status = "none"
  /\ exported = EmptyDb(region_cols)
  /\ best_versions = << >>
  /\ sh_file = << >>
  /\ cmd_file = << >>
  /\ file_count = 0
  /\ argument \in Walks
  /\ called = "none"
  /\ returned = None

NextImport ==
  \/ ImportGames
  \/ ResetSchema

SpecImport == InitImport /\ [][NextImport]_vars

\* C27: right after reset_schema the catalog holds no game, no version and
\* no part, and right after import_games has run over a walk, running it
\* over the same walk again yields the same catalog and the same stats.
C27_ImportTwiceSameCatalog ==
  /\ called = "reset_schema" =>
       /\ games = << >>
       /\ game_versions = << >>
       /\ game_parts = << >>
  /\ called = "import_games" =>
       /\ import_games(DB, argument).db = DB
       /\ import_games(DB, argument).stats = returned

\* C27 witness: import_games has run over a walk of three files on a
\* database that had the region columns, has stored a multi-part game and
\* skipped a file.
C27_Witness ==
  /\ called = "import_games"
  /\ Len(argument) = 3
  /\ returned.multi_games = 1
  /\ returned.skipped_files = 1
  /\ ~region_cols

=============================================================================
